---- MODULE Spec2Model ----
(***************************************************************************)
(* Model of the Figma plugin's node-tree serializer and its upload bridge  *)
(* (src/plugin/src/code.ts).  One serialization pass is started by each    *)
(* convert-selection message; a pass is a set of serializeNode calls, one  *)
(* per node of the selected subtree, each suspended at an await point.     *)
(* The event loop is single threaded: an action is one macrotask (a        *)
(* message handler, or the completion of an exportAsync call) together     *)
(* with every promise continuation it triggers.                            *)
(***************************************************************************)
EXTENDS Integers, Sequences, FiniteSets, TLC

\* ---------------------------------------------------------------- bounds
NumNodes == 4
MaxPasses == 2

\* ------------------------------------------------------------- document
Undefined == "undefined"
Mixed == "figma.mixed"

Nodes == 1..NumNodes

\* node.id of the n-th node of the document
NodeId(n) == "1:" \o ToString(n)

\* node.children, in sibling order; <<>> stands for a node without the
\* 'children' property (a leaf kind such as RECTANGLE or TEXT)
ChildrenOf(n) ==
    IF 2 * n + 1 <= NumNodes THEN <<2 * n, 2 * n + 1>>
    ELSE IF 2 * n <= NumNodes THEN <<2 * n>>
    ELSE <<>>

\* node.fills: Undefined ('fills' not in node), Mixed, or an array of paint types
FillsOf(n) ==
    CASE n % 5 = 1 -> <<"SOLID">>
      [] n % 5 = 2 -> <<"SOLID", "IMAGE">>
      [] n % 5 = 3 -> <<"IMAGE">>
      [] n % 5 = 4 -> Mixed
      [] OTHER     -> Undefined

\* the convert-selection messages, each with figma.currentPage.selection as
\* its handler finds it
ConvertMessages ==
    {[selection |-> <<>>, saveToFile |-> TRUE],
     [selection |-> <<1>>, saveToFile |-> TRUE],
     [selection |-> <<3, 1>>, saveToFile |-> FALSE]}

\* ---------------------------------------------------------------- state
VARIABLES
    passes,          \* per convert-selection message: [selection, saveToFile]
    tasks,           \* per pass: node -> the serializeNode call for that node
    order,           \* per pass: nodes in the order their calls fulfilled
    assets,          \* per pass: the assets accumulator (key -> entry)
    posted,          \* per pass: messages given to figma.ui.postMessage, in order
    pendingUploads,  \* request id -> resolver of the promise awaiting it
    uiPending,       \* upload-req messages the UI has not answered yet
    answered,        \* upload-req message -> the upload-resp the UI sent for it
    resolveCalls,    \* resolver -> the number of times the handler called it
    input,           \* the argument of the helper function under analysis
    output           \* <<v>> once the helper has returned v for input, <<>> before

vars == <<passes, tasks, order, assets, posted, pendingUploads, uiPending, answered,
          resolveCalls, input, output>>

EmptyMap == [x \in {} |-> Undefined]

\* m with key k set to v (Map.set, or obj[k] = v)
MapSet(m, k, v) == [x \in DOMAIN m \cup {k} |-> IF x = k THEN v ELSE m[x]]

\* m without key k (Map.delete)
MapDelete(m, k) == [x \in DOMAIN m \ {k} |-> m[x]]

\* a serializeNode call that has not been made
IdleTask ==
    [pc |-> "idle", id |-> Undefined, depth |-> -1, siblingIndex |-> -1,
     totalSiblings |-> -1, populated |-> FALSE,
     contextImageFilename |-> Undefined, hasChildren |-> FALSE, children |-> <<>>,
     ctxStep |-> Undefined, imgStep |-> Undefined]

\* node.name.replace(/[^a-zA-Z0-9]/g, '_').toLowerCase() for a node named "Node n"
SafeName(n) == "node_" \o ToString(n)

\* the id the context screenshot of node n is uploaded under
ContextId(n) == NodeId(n) \o "_context"

\* fills.some(fill => fill.type === 'IMAGE'), behind 'fills' in node and Array.isArray
HasImage(n) ==
    LET fills == FillsOf(n) IN
    /\ fills # Undefined
    /\ fills # Mixed
    /\ \E i \in DOMAIN fills : fills[i] = "IMAGE"

\* saveTempUpload's filename: the uploaded name, made unique per upload
TempFilename(name, p) == name \o "_" \o ToString(p) \o ".png"

-----------------------------------------------------------------------------
\* serializeNode, from the metadata assignment to its next await or its return.
\* r = [t |-> tasks of the pass, o |-> completion order]; thr = the nodes whose
\* synchronous part throws (a node removed from the document meanwhile).
RECURSIVE RunBody(_, _, _, _, _, _), RunChildren(_, _, _), StartChildren(_, _, _, _)

\* a recursive call that passes its own depth on
ChildDepthSame(depth) == depth

\* the depth argument of the recursive call for a child of a node at `depth`
ChildDepth(depth) == depth + 1

RunBody(r, n, depth, siblingIndex, totalSiblings, thr) ==
    LET t0 == [r.t[n] EXCEPT !.id = NodeId(n)] IN
    IF n \in thr
    THEN [r EXCEPT !.t[n] = [t0 EXCEPT !.pc = "threw"]]
    ELSE LET t1 == [t0 EXCEPT !.depth = depth, !.siblingIndex = siblingIndex,
                              !.totalSiblings = totalSiblings, !.populated = TRUE]
         IN  IF HasImage(n)
             THEN [r EXCEPT !.t[n] = [t1 EXCEPT !.pc = "imgExport"]]
             ELSE RunChildren([r EXCEPT !.t[n] = t1], n, thr)

\* the Children block of serializeNode for node n
RunChildren(r, n, thr) ==
    IF ChildrenOf(n) = <<>>
    THEN [t |-> [r.t EXCEPT ![n].pc = "done"], o |-> Append(r.o, n)]
    ELSE LET r1 == [r EXCEPT !.t[n].pc = "children", !.t[n].hasChildren = TRUE]
         IN  StartChildren(r1, n, 1, thr)

\* node.children.map(...): the calls for children i, i+1, ... of n are made in turn
StartChildren(r, n, i, thr) ==
    IF i > Len(ChildrenOf(n)) THEN r
    ELSE StartChildren(
             RunBody(r, ChildrenOf(n)[i], ChildDepth(r.t[n].depth), i - 1, Len(ChildrenOf(n)), thr),
             n, i + 1, thr)

\* children collected as their calls fulfil, not by index
PromiseAllByCompletion(r, n) ==
    LET kids == {ChildrenOf(n)[i] : i \in 1..Len(ChildrenOf(n))}
        done == SelectSeq(r.o, LAMBDA c : c \in kids)
    IN  [i \in 1..Len(done) |-> r.t[done[i]].id]

\* the value Promise.all fulfils with: the children's results, by index
PromiseAll(r, n) == [i \in 1..Len(ChildrenOf(n)) |-> r.t[ChildrenOf(n)[i]].id]

\* a call whose synchronous exception is swallowed: only an awaited rejection
\* rejects its promise
RejectedByAwaitOnly(pc) == pc = "failed"

\* the promise of a call is rejected: its synchronous part threw ("threw"), or
\* an awaited promise rejected ("failed")
Rejected(pc) == pc \in {"threw", "failed"}

\* the continuation of `await Promise.all(...)` in the call for node n, if it is due
SettleNode(r, n) ==
    LET kids == {ChildrenOf(n)[i] : i \in 1..Len(ChildrenOf(n))} IN
    IF r.t[n].pc # "children" THEN r
    ELSE IF \E c \in kids : Rejected(r.t[c].pc)
         THEN [r EXCEPT !.t[n].pc = "failed"]
    ELSE IF \A c \in kids : r.t[c].pc = "done"
         THEN [t |-> [r.t EXCEPT ![n].pc = "done", ![n].children = PromiseAll(r, n)],
               o |-> Append(r.o, n)]
    ELSE r

\* the promise continuations run before the next macrotask: children settle
\* their parents, deepest first (a child's number exceeds its parent's)
RECURSIVE Settle(_, _)
Settle(r, n) == IF n = 0 THEN r ELSE Settle(SettleNode(r, n), n - 1)

Settled(pc) == pc = "done" \/ Rejected(pc)

LogMsg == [type |-> "log-to-server"]

UploadReq(id, name) == [type |-> "upload-req", id |-> id, name |-> name]

\* what the convert-selection handler of pass p posts when its await of the
\* root call ends: `before` is the root call's state when the macrotask began
Terminal(p, before, r) ==
    LET root == passes[p].selection[1] IN
    IF Settled(before) THEN <<>>
    ELSE IF r.t[root].pc = "done"
         THEN <<[type |-> "selection-data", data |-> r.t[root].id,
                 contextImage |-> r.t[root].contextImageFilename,
                 saveToFile |-> passes[p].saveToFile]>>
    ELSE IF Rejected(r.t[root].pc)
         THEN <<[type |-> "error", message |-> "Failed to process selection. Check console."]>>
    ELSE <<>>

\* pass p continues with r (its calls after this macrotask's synchronous work),
\* having posted msgs; as is its assets accumulator
Continue(p, r, as, msgs) ==
    LET r2 == Settle(r, NumNodes)
        root == passes[p].selection[1]
    IN  /\ tasks' = [tasks EXCEPT ![p] = r2.t]
        /\ order' = [order EXCEPT ![p] = r2.o]
        /\ assets' = [assets EXCEPT ![p] = as]
        /\ posted' = [posted EXCEPT ![p] = @ \o msgs \o Terminal(p, tasks[p][root].pc, r2)]

Run(p) == [t |-> tasks[p], o |-> order[p]]

\* uploadImage: pendingUploads.set(id, resolve)
Register(table, id, resolver) == MapSet(table, id, resolver)

\* a handler that does not return after posting the error: the try block runs
\* on an undefined node, throws, and the catch block posts a second error
NoSelectionPostedTwice ==
    <<[type |-> "error", message |-> "Please select a node to convert."],
      [type |-> "error", message |-> "Failed to process selection. Check console."]>>

\* what the convert-selection handler posts when the selection is empty
NoSelectionPosted == <<[type |-> "error", message |-> "Please select a node to convert."]>>

-----------------------------------------------------------------------------
\* the plugin after start-up: no message handled, nothing pending
NoPass ==
    /\ passes = <<>>
    /\ tasks = <<>>
    /\ order = <<>>
    /\ assets = <<>>
    /\ posted = <<>>
    /\ pendingUploads = EmptyMap
    /\ uiPending = {}
    /\ answered = EmptyMap
    /\ resolveCalls = EmptyMap

Init ==
    /\ NoPass
    /\ input = Undefined
    /\ output = <<>>

\* figma.ui.onmessage with a convert-selection message, up to its first await
ConvertSelection(sel, save) ==
    /\ Len(passes) < MaxPasses
    /\ passes' = Append(passes, [selection |-> sel, saveToFile |-> save])
    /\ order' = Append(order, <<>>)
    /\ assets' = Append(assets, EmptyMap)
    /\ IF Len(sel) = 0
       THEN /\ tasks' = Append(tasks, [n \in Nodes |-> IdleTask])
            /\ posted' = Append(posted, NoSelectionPosted)
       ELSE /\ tasks' = Append(tasks,
                   [n \in Nodes |-> IF n = sel[1]
                                    THEN [IdleTask EXCEPT !.pc = "ctxExport", !.id = NodeId(n)]
                                    ELSE IdleTask])
            /\ posted' = Append(posted, <<LogMsg>>)
    /\ UNCHANGED <<pendingUploads, uiPending, answered, resolveCalls, input, output>>

RootOf(p) == passes[p].selection[1]

Null == "null"

\* JavaScript truthiness of a filename value
Truthy(v) == v \notin {Null, Undefined, ""}

\* the id the asset of node n is uploaded under
AssetId(n) == NodeId(n)

\* the nodes of the subtree of n
RECURSIVE Subtree(_)
Subtree(n) ==
    {n} \cup UNION {Subtree(ChildrenOf(n)[i]) : i \in 1..Len(ChildrenOf(n))}

\* the sets of nodes whose synchronous part may throw while the call for n,
\* and the calls it makes for its descendants, run
Throws(n) == SUBSET Subtree(n)

\* a context image step whose exception escapes serializeNode
ContextRethrow(r, n, thr) ==
    [r EXCEPT !.t[n].ctxStep = "export-threw", !.t[n].pc = "failed"]

\* an image export step whose exception escapes serializeNode
AssetRethrow(r, n, thr) ==
    [r EXCEPT !.t[n].imgStep = "export-threw", !.t[n].pc = "failed"]

\* the catch block of the context image step: log, then go on with the metadata
ContextCatch(r, n, thr) ==
    RunBody([r EXCEPT !.t[n].ctxStep = "export-threw"], n, 0, 0, 1, thr)

\* the catch block of the image export step: log, then go on with the children
AssetCatch(r, n, thr) ==
    RunChildren([r EXCEPT !.t[n].imgStep = "export-threw"], n, thr)

\* the exportAsync call of the root context image of pass p returns or throws
CtxExportDone(p, ok) ==
    LET n == RootOf(p)
        id == ContextId(n)
        name == "context_" \o SafeName(n)
        req == [pass |-> p, node |-> n, kind |-> "context", id |-> id, name |-> name]
    IN  /\ Len(passes[p].selection) > 0
        /\ tasks[p][n].pc = "ctxExport"
        /\ IF ok
           THEN /\ pendingUploads' =
                       Register(pendingUploads, id, [pass |-> p, node |-> n, kind |-> "context"])
                /\ uiPending' = uiPending \cup {req}
                /\ Continue(p, [Run(p) EXCEPT !.t[n].pc = "ctxUpload"], assets[p],
                            <<LogMsg, UploadReq(id, name)>>)
           ELSE /\ \E thr \in Throws(n) :
                       Continue(p, ContextCatch(Run(p), n, thr), assets[p], <<LogMsg>>)
                /\ UNCHANGED <<pendingUploads, uiPending>>
        /\ UNCHANGED <<passes, answered, resolveCalls, input, output>>

\* the exportAsync call of the image-bearing node n of pass p returns or throws
AssetExportDone(p, n, ok) ==
    LET id == AssetId(n)
        name == SafeName(n)
        req == [pass |-> p, node |-> n, kind |-> "asset", id |-> id, name |-> name]
    IN  /\ tasks[p][n].pc = "imgExport"
        /\ IF ok
           THEN /\ pendingUploads' =
                       Register(pendingUploads, id, [pass |-> p, node |-> n, kind |-> "asset"])
                /\ uiPending' = uiPending \cup {req}
                /\ Continue(p, [Run(p) EXCEPT !.t[n].pc = "imgUpload"], assets[p],
                            <<UploadReq(id, name)>>)
           ELSE /\ \E thr \in Throws(n) :
                       Continue(p, AssetCatch(Run(p), n, thr), assets[p], <<>>)
                /\ UNCHANGED <<pendingUploads, uiPending>>
        /\ UNCHANGED <<passes, answered, resolveCalls, input, output>>

\* resolve(msg.error ? null : msg.filename)
ResolvedValue(msg) == IF Truthy(msg.error) THEN Null ELSE msg.filename

\* the context step after `await uploadImage(...)` returned filename
ContextUploaded(r, n, filename) ==
    IF Truthy(filename)
    THEN [r EXCEPT !.t[n].contextImageFilename = filename, !.t[n].ctxStep = "uploaded"]
    ELSE [r EXCEPT !.t[n].ctxStep = "upload-null"]

\* the image step after `await uploadImage(...)` returned filename: the assets
AssetUploaded(as, n, filename) ==
    IF Truthy(filename)
    THEN MapSet(as, NodeId(n), [id |-> NodeId(n), name |-> SafeName(n), filename |-> filename])
    ELSE as

\* the promise a resolver belongs to is still pending
Awaiting(res) ==
    tasks[res.pass][res.node].pc = (IF res.kind = "context" THEN "ctxUpload" ELSE "imgUpload")

\* the continuation of `await uploadImage(...)` in the call the resolver belongs to
Resume(res, filename, thr) ==
    LET p == res.pass
        n == res.node
    IN  IF res.kind = "context"
        THEN Continue(p, RunBody(ContextUploaded(Run(p), n, filename), n, 0, 0, 1, thr),
                      assets[p], <<LogMsg>>)
        ELSE Continue(p,
                      RunChildren([Run(p) EXCEPT !.t[n].imgStep =
                                       IF Truthy(filename) THEN "uploaded" ELSE "upload-null"],
                                  n, thr),
                      AssetUploaded(assets[p], n, filename), <<>>)

\* a handler that empties the table instead of deleting one key
UnregisterAll(table, id) == EmptyMap

\* pendingUploads.delete(msg.id)
Unregister(table, id) == MapDelete(table, id)

\* a handler that empties the table when it finds no resolver
NoResolverClears(msg) ==
    /\ pendingUploads' = EmptyMap
    /\ UNCHANGED <<tasks, order, assets, posted, resolveCalls>>

\* if (resolve) is false: pendingUploads.get(msg.id) found nothing, return
NoResolver(msg) ==
    UNCHANGED <<tasks, order, assets, posted, pendingUploads, resolveCalls>>

\* figma.ui.onmessage with an upload-resp message
OnUploadResp(msg) ==
    IF msg.id \in DOMAIN pendingUploads
    THEN LET res == pendingUploads[msg.id] IN
         /\ IF Awaiting(res)
            THEN \E thr \in Throws(res.node) : Resume(res, ResolvedValue(msg), thr)
            ELSE UNCHANGED <<tasks, order, assets, posted>>
         /\ resolveCalls' = MapSet(resolveCalls, res,
                                   IF res \in DOMAIN resolveCalls THEN resolveCalls[res] + 1 ELSE 1)
         /\ pendingUploads' = Unregister(pendingUploads, msg.id)
    ELSE NoResolver(msg)

\* the upload-resp messages the UI may send for an upload-req
Replies(req) ==
    {[type |-> "upload-resp", id |-> req.id,
      filename |-> TempFilename(req.name, req.pass), error |-> Undefined],
     [type |-> "upload-resp", id |-> req.id,
      filename |-> Undefined, error |-> "Upload failed"]}

\* the UI answers the upload-req req with msg
UploadResp(req, msg) ==
    /\ req \in uiPending
    /\ msg \in Replies(req)
    /\ uiPending' = uiPending \ {req}
    /\ answered' = MapSet(answered, req, msg)
    /\ OnUploadResp(msg)
    /\ UNCHANGED <<passes, input, output>>

Next ==
    \/ \E m \in ConvertMessages : ConvertSelection(m.selection, m.saveToFile)
    \/ \E p \in DOMAIN passes, ok \in BOOLEAN : CtxExportDone(p, ok)
    \/ \E p \in DOMAIN passes, n \in Nodes, ok \in BOOLEAN : AssetExportDone(p, n, ok)
    \/ \E req \in uiPending : \E msg \in Replies(req) : UploadResp(req, msg)

Spec == Init /\ [][Next]_vars

\* the plugin when a single convert-selection message is handled
NextOnePass ==
    \/ \E m \in ConvertMessages :
           Len(passes) = 0 /\ ConvertSelection(m.selection, m.saveToFile)
    \/ \E p \in DOMAIN passes, ok \in BOOLEAN : CtxExportDone(p, ok)
    \/ \E p \in DOMAIN passes, n \in Nodes, ok \in BOOLEAN : AssetExportDone(p, n, ok)
    \/ \E req \in uiPending : \E msg \in Replies(req) : UploadResp(req, msg)

SpecOnePass == Init /\ [][NextOnePass]_vars

-----------------------------------------------------------------------------
\* Properties

\* the selection-data and error messages pass p has posted
TerminalMsgs(p) ==
    SelectSeq(posted[p], LAMBDA m : m.type \in {"selection-data", "error"})

\* the id a resolver is registered under
IdOf(res) == IF res.kind = "context" THEN ContextId(res.node) ELSE AssetId(res.node)

\* the node whose id is id
NodeOfId(id) == CHOOSE n \in Nodes : NodeId(n) = id

\* pass p has delivered its tree
Delivered(p) ==
    \E i \in DOMAIN posted[p] : posted[p][i].type = "selection-data"

\* C1: handling an upload-resp for one id leaves every entry registered under
\* another id in the pending table, with its promise still pending, and no
\* resolver is ever called more than once.
C1_IndependentResolution ==
    [][ /\ \A res \in DOMAIN resolveCalls' : resolveCalls'[res] <= 1
        /\ \A req \in uiPending \ uiPending' :
             \A a \in DOMAIN pendingUploads \ {req.id} :
                /\ a \in DOMAIN pendingUploads'
                /\ pendingUploads'[a] = pendingUploads[a]
                /\ tasks'[pendingUploads[a].pass][pendingUploads[a].node].pc
                     = tasks[pendingUploads[a].pass][pendingUploads[a].node].pc
                /\ Awaiting(pendingUploads[a]) ]_vars

\* C1 witness: in one pass the request under id A was sent before the request
\* under id B, B's resolver has been called and A is still pending.
C1_Witness ==
    \E p \in DOMAIN passes : \E i, j \in DOMAIN posted[p] :
        /\ i < j
        /\ posted[p][i].type = "upload-req"
        /\ posted[p][j].type = "upload-req"
        /\ posted[p][i].id \in DOMAIN pendingUploads
        /\ pendingUploads[posted[p][i].id].pass = p
        /\ Awaiting(pendingUploads[posted[p][i].id])
        /\ \E res \in DOMAIN resolveCalls :
              res.pass = p /\ IdOf(res) = posted[p][j].id /\ resolveCalls[res] = 1

\* C2: no upload-req is registered under an id that is already in the pending
\* table.
C2_UniqueRequestIds ==
    [][ \A req \in uiPending' \ uiPending : req.id \notin DOMAIN pendingUploads ]_vars

\* C3: the children array of every serialized node lists the children in
\* source sibling order, whatever order their calls completed in.
C3_ChildrenInSourceOrder ==
    \A p \in DOMAIN passes : \A n \in Nodes :
        tasks[p][n].pc = "done" =>
            /\ tasks[p][n].hasChildren <=> ChildrenOf(n) # <<>>
            /\ Len(tasks[p][n].children) = Len(ChildrenOf(n))
            /\ \A i \in DOMAIN tasks[p][n].children :
                  tasks[p][n].children[i] = NodeId(ChildrenOf(n)[i])

\* C3 witness: a delivered tree whose second child completed before its first.
C3_Witness ==
    \E p \in DOMAIN passes :
        /\ Delivered(p)
        /\ Len(tasks[p][RootOf(p)].children) = 2
        /\ \E i, j \in DOMAIN order[p] :
              /\ i < j
              /\ order[p][i] = ChildrenOf(RootOf(p))[2]
              /\ order[p][j] = ChildrenOf(RootOf(p))[1]

\* C4: the root has depth 0, every child has its parent's depth + 1 and its
\* parent's child count as totalSiblings, and the siblingIndex values of a
\* node's children are exactly 0..totalSiblings-1.
C4_DepthAndSiblings ==
    \A p \in DOMAIN passes : \A n \in Nodes :
        tasks[p][n].pc = "done" =>
            LET kids == tasks[p][n].children
                kid(i) == tasks[p][NodeOfId(kids[i])]
            IN  /\ n = RootOf(p) => tasks[p][n].depth = 0
                /\ \A i \in DOMAIN kids :
                      /\ kid(i).depth = tasks[p][n].depth + 1
                      /\ kid(i).totalSiblings = Len(kids)
                /\ {kid(i).siblingIndex : i \in DOMAIN kids} = 0..(Len(kids) - 1)

\* C4 witness: a delivered tree with a node at depth 2.
C4_Witness ==
    \E p \in DOMAIN passes :
        /\ Delivered(p)
        /\ \E n \in Nodes : tasks[p][n].pc = "done" /\ tasks[p][n].depth = 2

\* C5: the keys of the pending table are exactly the ids of the requests sent
\* and not yet answered (so the table is empty once every request is answered).
C5_TableIsUnanswered ==
    DOMAIN pendingUploads = {req.id : req \in uiPending}

\* the synchronous part of some call of pass p threw
Threw(p) == \E n \in Nodes : tasks[p][n].pc = "threw"

\* pass p has posted an error message
PostedError(p) == \E i \in DOMAIN posted[p] : posted[p][i].type = "error"

\* nothing is in flight: every request is answered and no export is running
Quiescent ==
    /\ uiPending = {}
    /\ \A p \in DOMAIN passes : \A n \in Nodes :
          tasks[p][n].pc \notin {"ctxExport", "imgExport"}

\* C6: once every upload-req sent has been answered and every export has
\* completed, each pass over a non-empty selection has posted exactly one
\* terminal message, and a selection-data echoes the request's saveToFile.
C6_OneTerminalPerPass ==
    Quiescent =>
        \A p \in DOMAIN passes :
            Len(passes[p].selection) > 0 =>
                /\ Len(TerminalMsgs(p)) = 1
                /\ TerminalMsgs(p)[1].type = "selection-data" =>
                      TerminalMsgs(p)[1].saveToFile = passes[p].saveToFile

\* the image step of node n in pass p failed: its export threw, or its upload
\* came back as the null sentinel
AssetFailed(p, n) == tasks[p][n].imgStep \in {"export-threw", "upload-null"}

\* C7: a node whose image export threw or whose upload failed stays in the
\* tree with its fields populated, its call goes on to its children, assets
\* has no entry for it, and the pass posts an error only if some call threw
\* outside the export steps; when the root call returns, selection-data is
\* posted with that node serialized.
C7_AssetFailureIsolated ==
    \A p \in DOMAIN passes : \A n \in Nodes :
        AssetFailed(p, n) =>
            /\ NodeId(n) \notin DOMAIN assets[p]
            /\ tasks[p][n].id = NodeId(n)
            /\ tasks[p][n].populated
            /\ tasks[p][n].pc \in {"children", "done", "failed"}
            /\ tasks[p][n].pc = "failed" => Threw(p)
            /\ PostedError(p) => Threw(p)
            /\ tasks[p][RootOf(p)].pc = "done" =>
                  /\ Delivered(p)
                  /\ tasks[p][n].pc = "done"
                  /\ Len(tasks[p][n].children) = Len(ChildrenOf(n))

\* C7 witness: a delivered tree with one node whose export threw and one whose
\* upload was answered with an error.
C7_Witness ==
    \E p \in DOMAIN passes :
        /\ Delivered(p)
        /\ \E n \in Nodes : tasks[p][n].imgStep = "export-threw" /\ ChildrenOf(n) # <<>>
        /\ \E n \in Nodes : tasks[p][n].imgStep = "upload-null"

\* the context image step of pass p failed
ContextFailed(p) ==
    /\ Len(passes[p].selection) > 0
    /\ tasks[p][RootOf(p)].ctxStep \in {"export-threw", "upload-null"}

\* C8: when the context screenshot fails the root call goes on: the root and
\* its descendants are serialized, contextImageFilename and contextImage are
\* absent, and the pass posts an error only if some call threw outside the
\* export steps.
C8_ContextFailureIsolated ==
    \A p \in DOMAIN passes :
        ContextFailed(p) =>
            LET root == tasks[p][RootOf(p)] IN
            /\ root.contextImageFilename = Undefined
            /\ root.pc \in {"imgExport", "imgUpload", "children", "done", "failed", "threw"}
            /\ root.pc = "failed" => Threw(p)
            /\ PostedError(p) => Threw(p)
            /\ root.pc # "threw" => root.populated
            /\ root.pc = "done" =>
                  /\ Delivered(p)
                  /\ \A n \in Subtree(RootOf(p)) :
                        tasks[p][n].pc = "done" /\ tasks[p][n].populated
            /\ \A i \in DOMAIN posted[p] :
                  posted[p][i].type = "selection-data" =>
                      posted[p][i].contextImage = Undefined

\* C8 witness: a delivered tree with children whose context upload was
\* answered with an error.
C8_Witness ==
    \E p \in DOMAIN passes :
        /\ Delivered(p)
        /\ ChildrenOf(RootOf(p)) # <<>>
        /\ tasks[p][RootOf(p)].ctxStep = "upload-null"
        /\ \E req \in DOMAIN answered : req.pass = p /\ Truthy(answered[req].error)

\* the upload-req of the image step of node n in pass p
AssetReq(p, n) ==
    [pass |-> p, node |-> n, kind |-> "asset", id |-> AssetId(n), name |-> SafeName(n)]

\* C9: in a delivered pass, assets has an entry under node n's id iff n is in
\* the tree with an IMAGE paint in its fills array, its export succeeded and
\* the upload-resp for its request carried a filename and no error; the entry
\* has that id and that response's filename.
C9_AssetsIffUploaded ==
    \A p \in DOMAIN passes :
        Delivered(p) =>
            \A n \in Nodes :
                /\ NodeId(n) \in DOMAIN assets[p] <=>
                      /\ tasks[p][n].pc = "done"
                      /\ HasImage(n)
                      /\ AssetReq(p, n) \in DOMAIN answered
                      /\ Truthy(answered[AssetReq(p, n)].filename)
                      /\ ~Truthy(answered[AssetReq(p, n)].error)
                /\ NodeId(n) \in DOMAIN assets[p] =>
                      /\ assets[p][NodeId(n)].id = NodeId(n)
                      /\ AssetReq(p, n) \in DOMAIN answered
                      /\ assets[p][NodeId(n)].filename = answered[AssetReq(p, n)].filename

\* C10: a convert-selection that finds the selection empty posts one error
\* message and nothing else, ever: no call is made, no upload-req is sent, no
\* assets are recorded, and the pending table and the requests in flight are
\* as they were.
C10_EmptySelection ==
    [][ \A p \in DOMAIN passes' :
           Len(passes'[p].selection) = 0 =>
               /\ Len(posted'[p]) = 1
               /\ posted'[p][1].type = "error"
               /\ \A n \in Nodes : tasks'[p][n] = IdleTask
               /\ assets'[p] = EmptyMap
               /\ order'[p] = <<>>
               /\ ~\E req \in uiPending' \cup DOMAIN answered' : req.pass = p
               /\ p \notin DOMAIN passes =>
                     pendingUploads' = pendingUploads /\ uiPending' = uiPending ]_vars

\* C10 witness: a convert-selection found the selection empty while an
\* earlier pass had a request pending.
C10_Witness ==
    \E p \in DOMAIN passes :
        /\ p > 1
        /\ Len(passes[p].selection) = 0
        /\ posted[p] = NoSelectionPosted
        /\ \E id \in DOMAIN pendingUploads : pendingUploads[id].pass < p

\* the proper ancestors of node n
Ancestors(n) == {m \in Nodes : n \in Subtree(m) /\ m # n}

\* C11: when the synchronous part of a call throws, the rejection reaches the
\* top-level caller through every ancestor: each ancestor's call is rejected,
\* the pass has posted an error and it never posts selection-data.
C11_FatalPropagates ==
    \A p \in DOMAIN passes : \A n \in Nodes :
        tasks[p][n].pc = "threw" =>
            /\ \A m \in Ancestors(n) \cap Subtree(RootOf(p)) : tasks[p][m].pc = "failed"
            /\ PostedError(p)
            /\ ~Delivered(p)

\* C11 witness: a node two levels below the root threw while a call of another
\* branch was still waiting, and the pass has posted its error.
C11_Witness ==
    \E p \in DOMAIN passes : \E n \in Nodes :
        /\ tasks[p][n].pc = "threw"
        /\ Cardinality(Ancestors(n) \cap Subtree(RootOf(p))) >= 2
        /\ \E m \in Nodes : tasks[p][m].pc \in {"imgExport", "imgUpload"}
        /\ PostedError(p)

\* node m of pass p waits behind an unanswered request of one of its ancestors
Blocked(p, m) ==
    \E req \in uiPending : req.pass = p /\ m \in Subtree(req.node) \ {req.node}

\* no exportAsync call of pass p is running
NoExportRunning(p) ==
    \A m \in Nodes : tasks[p][m].pc \notin {"ctxExport", "imgExport"}

\* C13: while an upload-req is unanswered its pass has not posted
\* selection-data and no call below the issuing node has been made, but the
\* branches beside it go on: once the exports of the pass have returned, every
\* node outside the issuing node's subtree (and not behind another unanswered
\* request) is populated, its own upload-req has been sent and, if answered
\* with a filename, its assets entry is recorded.
C13_HungUploadStallsBranch ==
    \A req \in uiPending :
        LET p == req.pass
            n == req.node
        IN  /\ ~Delivered(p)
            /\ \A m \in Subtree(n) \ {n} : tasks[p][m].pc = "idle"
            /\ (~Threw(p) /\ NoExportRunning(p)) =>
                  \A m \in Subtree(RootOf(p)) \ Subtree(n) :
                      ~Blocked(p, m) =>
                          /\ tasks[p][m].populated
                          /\ HasImage(m) =>
                                \/ tasks[p][m].imgStep = "export-threw"
                                \/ AssetReq(p, m) \in uiPending
                                \/ /\ AssetReq(p, m) \in DOMAIN answered
                                   /\ Truthy(answered[AssetReq(p, m)].filename) =>
                                         NodeId(m) \in DOMAIN assets[p]

\* the upload-req messages pass p has posted, in order
UploadReqs(p) == SelectSeq(posted[p], LAMBDA m : m.type = "upload-req")

\* the ids a pass over the tree of root asks uploads for
ExpectedIds(root) ==
    {ContextId(root)} \cup {AssetId(n) : n \in {m \in Subtree(root) : HasImage(m)}}

\* every export of pass p has returned without throwing, every request of the
\* pass is answered and no call threw
AllExportedAndAnswered(p) ==
    /\ Len(passes[p].selection) > 0
    /\ NoExportRunning(p)
    /\ ~Threw(p)
    /\ \A n \in Nodes : /\ tasks[p][n].ctxStep # "export-threw"
                        /\ tasks[p][n].imgStep # "export-threw"
    /\ ~\E req \in uiPending : req.pass = p

\* C14: a pass never sends an upload-req twice nor one under an id other than
\* root.id + '_context' or the id of an image-bearing node of its tree; and
\* once every export has succeeded and every request is answered it has sent
\* exactly one request under each of these ids.
C14_ExactlyTheExpectedRequests ==
    \A p \in DOMAIN passes :
        Len(passes[p].selection) > 0 =>
            LET reqs == UploadReqs(p)
                ids == {reqs[i].id : i \in DOMAIN reqs}
            IN  /\ Cardinality(ids) = Len(reqs)
                /\ ids \subseteq ExpectedIds(RootOf(p))
                /\ AllExportedAndAnswered(p) => ids = ExpectedIds(RootOf(p))

\* the upload-req of the context step of pass p
ContextReq(p) ==
    [pass |-> p, node |-> RootOf(p), kind |-> "context", id |-> ContextId(RootOf(p)),
     name |-> "context_" \o SafeName(RootOf(p))]

\* C15: contextImageFilename is set on no call but the root's (depth 0); when
\* set, it is the filename of the upload-resp that answered the context
\* request of that pass, and the contextImage of selection-data equals the
\* root's contextImageFilename.
C15_ContextFilenameOnRootOnly ==
    \A p \in DOMAIN passes :
        Len(passes[p].selection) > 0 =>
            /\ \A n \in Nodes :
                  tasks[p][n].contextImageFilename # Undefined =>
                      /\ n = RootOf(p)
                      /\ tasks[p][n].populated => tasks[p][n].depth = 0
                      /\ ContextReq(p) \in DOMAIN answered
                      /\ tasks[p][n].contextImageFilename = answered[ContextReq(p)].filename
            /\ \A i \in DOMAIN posted[p] :
                  posted[p][i].type = "selection-data" =>
                      posted[p][i].contextImage = tasks[p][RootOf(p)].contextImageFilename

-----------------------------------------------------------------------------
\* Figma objects are records.  A property the object does not have is not in
\* the record's domain; the names of the properties that read as figma.mixed
\* are in its field `mixed`.  null, where an object is expected, is the record
\* without fields.  Opacities and confidences are in hundredths (1 is 100).

\* 'prop' in obj
Has(obj, prop) == prop \in DOMAIN obj

\* obj[prop] === figma.mixed
IsMixed(obj, prop) == prop \in obj.mixed

NullObject == EmptyMap

IsNull(v) == DOMAIN v = {}

\* obj[prop] ?? default
Coalesce(obj, prop, default) == IF Has(obj, prop) THEN obj[prop] ELSE default

GradientTypes ==
    {"GRADIENT_LINEAR", "GRADIENT_RADIAL", "GRADIENT_ANGULAR", "GRADIENT_DIAMOND"}

serializePaint(paint) ==
    IF paint.type = "SOLID"
    THEN [type |-> "SOLID", color |-> paint.color,
          opacity |-> Coalesce(paint, "opacity", 100),
          visible |-> Coalesce(paint, "visible", TRUE)]
    ELSE IF paint.type \in GradientTypes
    THEN [type |-> paint.type, gradientStops |-> paint.gradientStops,
          gradientTransform |-> paint.gradientTransform,
          opacity |-> Coalesce(paint, "opacity", 100),
          visible |-> Coalesce(paint, "visible", TRUE)]
    ELSE IF paint.type = "IMAGE"
    THEN [type |-> "IMAGE", opacity |-> Coalesce(paint, "opacity", 100),
          scaleMode |-> paint.scaleMode, visible |-> Coalesce(paint, "visible", TRUE)]
    ELSE NullObject

serializeEffect(effect) ==
    IF effect.type \in {"DROP_SHADOW", "INNER_SHADOW"}
    THEN [type |-> effect.type, color |-> effect.color, offset |-> effect.offset,
          radius |-> effect.radius, spread |-> Coalesce(effect, "spread", 0),
          visible |-> effect.visible, blendMode |-> effect.blendMode]
    ELSE IF effect.type \in {"LAYER_BLUR", "BACKGROUND_BLUR"}
    THEN [type |-> effect.type, radius |-> effect.radius, visible |-> effect.visible]
    ELSE NullObject

\* paints.map(serializePaint)
MapPaints(paints) == [i \in DOMAIN paints |-> serializePaint(paints[i])]

\* effects.map(serializeEffect)
MapEffects(effects) == [i \in DOMAIN effects |-> serializeEffect(effects[i])]

\* paints of a document: one of each kind the codec knows, and a video paint
SolidPaint == [type |-> "SOLID", color |-> "#336699", opacity |-> 50]

GradientPaint ==
    [type |-> "GRADIENT_RADIAL", gradientStops |-> <<"#000000", "#ffffff">>,
     gradientTransform |-> <<<<1, 0, 0>>, <<0, 1, 0>>>>, visible |-> FALSE]

ImagePaint == [type |-> "IMAGE", scaleMode |-> "FILL", imageHash |-> "a1b2"]

VideoPaint == [type |-> "VIDEO", scaleMode |-> "FILL", videoHash |-> "c3d4"]

-----------------------------------------------------------------------------
\* extractText

MaxChars == 4

\* the character styles of a document: Regular, and one style differing from
\* it in each attribute alone (size, font name, weight, fills); the style of
\* one character is never mixed
Regular ==
    [fontSize |-> 14, fontName |-> [family |-> "Inter", style |-> "Regular"],
     fontWeight |-> 400, fills |-> <<SolidPaint>>, mixed |-> {}]

TextStyles ==
    {Regular,
     [Regular EXCEPT !.fontSize = 24],
     [Regular EXCEPT !.fontName = [family |-> "Inter", style |-> "Italic"]],
     [Regular EXCEPT !.fontWeight = 700],
     [Regular EXCEPT !.fills = <<SolidPaint, VideoPaint>>]}

NoThrow == -1

\* the node-level text properties that differ between the characters
MixedOver(styles) ==
    {prop \in {"fontSize", "fontName", "fontWeight"} :
        \E i, j \in DOMAIN styles : styles[i][prop] # styles[j][prop]}

\* a TextNode whose i-th character has style styles[i]; a range query that
\* covers character throwAt throws; unset: the node-level properties that are
\* not derived from the characters are figma.mixed or missing
TextNode(styles, throwAt, unset) ==
    LET first == IF Len(styles) > 0 THEN styles[1] ELSE Regular
        node == [characters |-> SubSeq("abcdefgh", 1, Len(styles)),
                 styles |-> styles,
                 throwAt |-> throwAt,
                 fontSize |-> first.fontSize,
                 fontName |-> first.fontName,
                 fontWeight |-> first.fontWeight,
                 textDecoration |-> "UNDERLINE",
                 textCase |-> "UPPER",
                 lineHeight |-> [unit |-> "PIXELS", value |-> 20],
                 letterSpacing |-> [unit |-> "PERCENT", value |-> 5],
                 textAlignHorizontal |-> "CENTER",
                 textAlignVertical |-> "TOP",
                 paragraphSpacing |-> 8,
                 mixed |-> MixedOver(styles) \cup
                           IF unset
                           THEN {"textDecoration", "textCase", "lineHeight",
                                 "letterSpacing", "paragraphSpacing"}
                           ELSE {}]
    IN  IF unset THEN node ELSE MapSet(node, "paragraphIndent", 0)

TextNodes ==
    {TextNode(styles, throwAt, unset) :
        styles \in UNION {[1..len -> TextStyles] : len \in 0..MaxChars},
        throwAt \in NoThrow..(MaxChars - 1), unset \in BOOLEAN}

\* node.getRangeFontSize(i, i + 1) and its siblings throw
RangeThrows(node, i) == node.throwAt = i

\* JSON.stringify of a FontName
StringifyFontName(fontName) ==
    "{\"family\":\"" \o fontName.family \o "\",\"style\":\"" \o fontName.style \o "\"}"

\* the test of the scan loop with the weight comparison left out
SameStyleBySizeAndName(node, currentPos, i) ==
    LET cur == node.styles[currentPos + 1]
        next == node.styles[i + 1]
    IN  /\ cur.fontSize = next.fontSize
        /\ ~IsMixed(cur, "fontName") /\ ~IsMixed(next, "fontName")
        /\ StringifyFontName(cur.fontName) = StringifyFontName(next.fontName)

\* the test of the scan loop: character i continues the run begun at currentPos
SameStyle(node, currentPos, i) ==
    LET cur == node.styles[currentPos + 1]
        next == node.styles[i + 1]
    IN  /\ cur.fontSize = next.fontSize
        /\ ~IsMixed(cur, "fontName") /\ ~IsMixed(next, "fontName")
        /\ StringifyFontName(cur.fontName) = StringifyFontName(next.fontName)
        /\ cur.fontWeight = next.fontWeight

Thrown == -1

\* a for loop that sets styleEnd = i, so that a run ended by its first
\* comparison is empty
RECURSIVE StyleEndBeforeIndex(_, _, _)
StyleEndBeforeIndex(node, currentPos, i) ==
    IF i >= Len(node.characters) THEN i
    ELSE IF RangeThrows(node, i) THEN Thrown
    ELSE IF SameStyle(node, currentPos, i) THEN StyleEndBeforeIndex(node, currentPos, i + 1)
    ELSE i - 1

\* the for loop at index i, every character of currentPos+1..i-1 having
\* matched: the value of styleEnd when the loop ends, or Thrown
RECURSIVE StyleEnd(_, _, _)
StyleEnd(node, currentPos, i) ==
    IF i >= Len(node.characters) THEN i
    ELSE IF RangeThrows(node, i) THEN Thrown
    ELSE IF SameStyle(node, currentPos, i) THEN StyleEnd(node, currentPos, i + 1)
    ELSE i

\* the segment pushed for the run currentPos..styleEnd-1
Segment(node, currentPos, styleEnd) ==
    LET first == node.styles[currentPos + 1]
        segment == [characters |-> SubSeq(node.characters, currentPos + 1, styleEnd),
                    start |-> currentPos, end |-> styleEnd,
                    fontSize |-> first.fontSize, fontName |-> first.fontName,
                    fontWeight |-> first.fontWeight]
    IN  IF ~IsMixed(first, "fills")
        THEN MapSet(segment, "fills", MapPaints(first.fills))
        ELSE segment

\* the while loop from currentPos on, segments being those pushed so far: the
\* segments array when the try statement ends, by completion or in the catch
RECURSIVE ScanSegments(_, _, _)
ScanSegments(node, currentPos, segments) ==
    IF currentPos >= Len(node.characters) THEN segments
    ELSE IF RangeThrows(node, currentPos) THEN segments
    ELSE LET first == node.styles[currentPos + 1]
             styleEnd == StyleEnd(node, currentPos, currentPos + 1)
         IN  IF styleEnd = Thrown THEN segments
             ELSE ScanSegments(node, styleEnd,
                      IF /\ ~IsMixed(first, "fontSize")
                         /\ ~IsMixed(first, "fontName")
                         /\ ~IsMixed(first, "fontWeight")
                      THEN Append(segments, Segment(node, currentPos, styleEnd))
                      ELSE segments)

\* a read that passes the property on as it is
UnmixedRaw(node, prop, default) == node[prop]

\* node[prop] !== figma.mixed ? node[prop] : default
Unmixed(node, prop, default) == IF ~IsMixed(node, prop) THEN node[prop] ELSE default

\* the textProps object literal and the paragraph properties
TopLevelProps(node) ==
    LET textProps ==
            [characters |-> node.characters,
             fontSize |-> Unmixed(node, "fontSize", 14),
             fontName |-> Unmixed(node, "fontName", [family |-> "Inter", style |-> "Regular"]),
             fontWeight |-> Unmixed(node, "fontWeight", 400),
             textDecoration |-> Unmixed(node, "textDecoration", "NONE"),
             textCase |-> Unmixed(node, "textCase", "ORIGINAL"),
             lineHeight |-> Unmixed(node, "lineHeight", [unit |-> "AUTO"]),
             letterSpacing |-> Unmixed(node, "letterSpacing", [unit |-> "PIXELS", value |-> 0]),
             textAlignHorizontal |-> node.textAlignHorizontal,
             textAlignVertical |-> node.textAlignVertical]
        withSpacing ==
            IF Has(node, "paragraphSpacing") /\ ~IsMixed(node, "paragraphSpacing")
            THEN MapSet(textProps, "paragraphSpacing", node.paragraphSpacing)
            ELSE textProps
    IN  IF Has(node, "paragraphIndent") /\ ~IsMixed(node, "paragraphIndent")
        THEN MapSet(withSpacing, "paragraphIndent", node.paragraphIndent)
        ELSE withSpacing

\* if (segments.length > 1) textProps.styledSegments = segments
Attach(textProps, segments) ==
    IF Len(segments) > 1 THEN MapSet(textProps, "styledSegments", segments)
    ELSE textProps

extractText(node) ==
    LET segments == IF Len(node.characters) > 0 THEN ScanSegments(node, 0, <<>>)
                    ELSE <<>>
    IN  Attach(TopLevelProps(node), segments)

\* serializeNode calls extractText for a TEXT node
ExtractTextCall ==
    /\ output = <<>>
    /\ output' = <<extractText(input)>>
    /\ UNCHANGED <<passes, tasks, order, assets, posted, pendingUploads, uiPending,
                   answered, resolveCalls, input>>

InitExtractText ==
    /\ NoPass
    /\ input \in TextNodes
    /\ output = <<>>

SpecExtractText == InitExtractText /\ [][ExtractTextCall]_vars

\* the styled-segment scan of the text node threw
ScanThrew(node) == node.throwAt \in 0..(Len(node.characters) - 1)

TopLevelNames ==
    {"characters", "fontSize", "fontName", "fontWeight", "textDecoration", "textCase",
     "lineHeight", "letterSpacing", "textAlignHorizontal", "textAlignVertical"}

\* C12: when a range query throws during the segment scan, extractText still
\* returns, with every top-level property and without styledSegments.
C12_ThrowDropsSegments ==
    (output # <<>> /\ ScanThrew(input)) =>
        /\ TopLevelNames \subseteq DOMAIN output[1]
        /\ ~Has(output[1], "styledSegments")

\* the three attributes of the i-th character (counted from 1) that delimit runs
RunAttributes(node, i) ==
    <<node.styles[i].fontSize, node.styles[i].fontName, node.styles[i].fontWeight>>

\* the characters at which a maximal run of identical attributes begins
RunStarts(node) ==
    {i \in 1..Len(node.styles) :
        i = 1 \/ RunAttributes(node, i) # RunAttributes(node, i - 1)}

\* C16: when no range query throws, styledSegments is attached iff the text
\* has at least two maximal runs of identical font size, font name and font
\* weight, and then its entries are these runs: the first starts at 0, each
\* starts where the previous one ends, the last ends at the text length, every
\* character of a segment has the segment's attributes, and adjacent segments
\* differ in at least one attribute.
C16_SegmentsAreMaximalRuns ==
    (output # <<>> /\ ~ScanThrew(input)) =>
        /\ Has(output[1], "styledSegments") <=> Cardinality(RunStarts(input)) >= 2
        /\ Has(output[1], "styledSegments") =>
              LET segs == output[1].styledSegments IN
              /\ Len(segs) = Cardinality(RunStarts(input))
              /\ segs[1].start = 0
              /\ segs[Len(segs)].end = Len(input.characters)
              /\ \A k \in 1..(Len(segs) - 1) :
                    /\ segs[k + 1].start = segs[k].end
                    /\ RunAttributes(input, segs[k].end)
                          # RunAttributes(input, segs[k + 1].start + 1)
              /\ \A k \in DOMAIN segs :
                    /\ segs[k].start < segs[k].end
                    /\ segs[k].characters
                          = SubSeq(input.characters, segs[k].start + 1, segs[k].end)
                    /\ \A i \in (segs[k].start + 1)..segs[k].end :
                          RunAttributes(input, i)
                              = <<segs[k].fontSize, segs[k].fontName, segs[k].fontWeight>>

\* C16 witness: a text of two runs, the first of them two characters that
\* differ in their fills only, was split at the change of weight.
C16_Witness ==
    /\ output # <<>>
    /\ ~ScanThrew(input)
    /\ Has(output[1], "styledSegments")
    /\ Len(output[1].styledSegments) = 2
    /\ output[1].styledSegments[1].end = 2
    /\ input.styles[1].fills # input.styles[2].fills
    /\ input.styles[2].fontWeight # input.styles[3].fontWeight

-----------------------------------------------------------------------------
\* analyzeSemanticRole

UpperCaseLetters == "ABCDEFGHIJKLMNOPQRSTUVWXYZ"

LowerCaseLetters == "abcdefghijklmnopqrstuvwxyz"

\* String.prototype.toLowerCase
RECURSIVE toLowerCase(_)
toLowerCase(str) ==
    IF str = "" THEN ""
    ELSE LET c == SubSeq(str, 1, 1)
             at == {i \in 1..Len(UpperCaseLetters) : SubSeq(UpperCaseLetters, i, i) = c}
             lower == IF at = {} THEN c
                      ELSE LET i == CHOOSE i \in at : TRUE IN SubSeq(LowerCaseLetters, i, i)
         IN  lower \o toLowerCase(SubSeq(str, 2, Len(str)))

\* String.prototype.includes
includes(str, search) ==
    \E i \in 1..(Len(str) - Len(search) + 1) : SubSeq(str, i, i + Len(search) - 1) = search

\* hints[key] = value
Assign(hints, key, value) == MapSet(hints, key, value)

\* a rule chain that tries the icon rule before every other rule
RoleRulesIconFirst(hints, name, node) ==
    IF includes(name, "icon") \/ (node.width = node.height /\ node.width <= 48)
    THEN Assign(Assign(hints, "likelyRole", "icon"), "confidence", 70)
    ELSE IF includes(name, "button") \/ includes(name, "btn") \/ includes(name, "cta")
    THEN Assign(Assign(Assign(hints, "likelyRole", "button"), "isInteractive", TRUE),
                "confidence", 90)
    ELSE IF includes(name, "input") \/ includes(name, "textfield") \/ includes(name, "field")
    THEN Assign(Assign(Assign(hints, "likelyRole", "input"), "isInteractive", TRUE),
                "confidence", 90)
    ELSE IF includes(name, "card")
    THEN Assign(Assign(hints, "likelyRole", "card"), "confidence", 85)
    ELSE IF includes(name, "header") \/ includes(name, "navbar") \/ includes(name, "appbar")
    THEN Assign(Assign(hints, "likelyRole", "header"), "confidence", 85)
    ELSE IF includes(name, "avatar") \/ includes(name, "profile")
    THEN Assign(Assign(hints, "likelyRole", "avatar"), "confidence", 80)
    ELSE IF \/ includes(name, "divider") \/ includes(name, "separator")
            \/ (node.height <= 2 /\ node.width > 50)
            \/ (node.width <= 2 /\ node.height > 50)
    THEN Assign(Assign(Assign(hints, "likelyRole", "divider"), "isDecorative", TRUE),
                "confidence", 80)
    ELSE IF includes(name, "badge") \/ includes(name, "tag") \/ includes(name, "chip")
    THEN Assign(Assign(hints, "likelyRole", "badge"), "confidence", 80)
    ELSE hints

\* the if / else-if chain of role rules
RoleRules(hints, name, node) ==
    IF includes(name, "button") \/ includes(name, "btn") \/ includes(name, "cta")
    THEN Assign(Assign(Assign(hints, "likelyRole", "button"), "isInteractive", TRUE),
                "confidence", 90)
    ELSE IF includes(name, "input") \/ includes(name, "textfield") \/ includes(name, "field")
    THEN Assign(Assign(Assign(hints, "likelyRole", "input"), "isInteractive", TRUE),
                "confidence", 90)
    ELSE IF includes(name, "card")
    THEN Assign(Assign(hints, "likelyRole", "card"), "confidence", 85)
    ELSE IF includes(name, "header") \/ includes(name, "navbar") \/ includes(name, "appbar")
    THEN Assign(Assign(hints, "likelyRole", "header"), "confidence", 85)
    ELSE IF includes(name, "avatar") \/ includes(name, "profile")
    THEN Assign(Assign(hints, "likelyRole", "avatar"), "confidence", 80)
    ELSE IF includes(name, "icon") \/ (node.width = node.height /\ node.width <= 48)
    THEN Assign(Assign(hints, "likelyRole", "icon"), "confidence", 70)
    ELSE IF \/ includes(name, "divider") \/ includes(name, "separator")
            \/ (node.height <= 2 /\ node.width > 50)
            \/ (node.width <= 2 /\ node.height > 50)
    THEN Assign(Assign(Assign(hints, "likelyRole", "divider"), "isDecorative", TRUE),
                "confidence", 80)
    ELSE IF includes(name, "badge") \/ includes(name, "tag") \/ includes(name, "chip")
    THEN Assign(Assign(hints, "likelyRole", "badge"), "confidence", 80)
    ELSE hints

\* if ('reactions' in node && node.reactions.length > 0) hints.isInteractive = true
ReactionsOverride(hints, node) ==
    IF Has(node, "reactions") /\ node.reactions > 0
    THEN Assign(hints, "isInteractive", TRUE)
    ELSE hints

\* an override that stores the outcome of the opacity test
OpacityOverrideAssign(hints, node) ==
    IF Has(node, "opacity") THEN Assign(hints, "isDecorative", node.opacity < 10)
    ELSE hints

\* if ('opacity' in node && node.opacity < 0.1) hints.isDecorative = true
OpacityOverride(hints, node) ==
    IF Has(node, "opacity") /\ node.opacity < 10
    THEN Assign(hints, "isDecorative", TRUE)
    ELSE hints

\* the bg / background / overlay test on the lowercased name
NameOverride(hints, name) ==
    IF includes(name, "bg") \/ includes(name, "background") \/ includes(name, "overlay")
    THEN Assign(hints, "isDecorative", TRUE)
    ELSE hints

analyzeSemanticRole(node, depth) ==
    LET name == toLowerCase(node.name)
        hints == [confidence |-> 0]
    IN  NameOverride(
            OpacityOverride(ReactionsOverride(RoleRules(hints, name, node), node), node),
            name)

\* node names of a document
NodeNames ==
    {"Primary Button", "Submit BTN", "Octagon", "Input Button", "Search Input",
     "TextField", "Card Header", "Button Card", "NavBar", "Profile Icon",
     "Icon Divider", "Divider", "Separator Tag", "Badge", "Stage", "Chip BG",
     "Background", "Overlay Button", "Avatar Badge", "Frame 12"}

\* width and height of the nodes of a document
NodeSizes ==
    {<<24, 24>>, <<48, 48>>, <<49, 49>>, <<2, 2>>, <<200, 1>>, <<50, 2>>, <<51, 2>>,
     <<2, 51>>, <<120, 40>>}

\* the nodes of a document as the classifier reads them: reactions is the
\* length of node.reactions
SceneNodes ==
    UNION {
        LET node == [name |-> name, width |-> size[1], height |-> size[2]] IN
        {node, MapSet(node, "reactions", reactions), MapSet(node, "opacity", opacity),
         MapSet(MapSet(node, "reactions", reactions), "opacity", opacity)} :
        name \in NodeNames, size \in NodeSizes, reactions \in {0, 2},
        opacity \in {5, 10, 100}}

\* serializeNode calls analyzeSemanticRole
AnalyzeSemanticRoleCall ==
    /\ output = <<>>
    /\ output' = <<analyzeSemanticRole(input, 0)>>
    /\ UNCHANGED <<passes, tasks, order, assets, posted, pendingUploads, uiPending,
                   answered, resolveCalls, input>>

InitAnalyzeSemanticRole ==
    /\ NoPass
    /\ input \in SceneNodes
    /\ output = <<>>

SpecAnalyzeSemanticRole == InitAnalyzeSemanticRole /\ [][AnalyzeSemanticRoleCall]_vars

\* the roles in the order the claim gives their rules
RoleOrder == <<"button", "input", "card", "header", "avatar", "icon", "divider", "badge">>

RuleKeywords(role) ==
    CASE role = "button"  -> {"button", "btn", "cta"}
      [] role = "input"   -> {"input", "textfield", "field"}
      [] role = "card"    -> {"card"}
      [] role = "header"  -> {"header", "navbar", "appbar"}
      [] role = "avatar"  -> {"avatar", "profile"}
      [] role = "icon"    -> {"icon"}
      [] role = "divider" -> {"divider", "separator"}
      [] role = "badge"   -> {"badge", "tag", "chip"}

RuleMatches(role, node) ==
    \/ \E kw \in RuleKeywords(role) : includes(toLowerCase(node.name), kw)
    \/ role = "icon" /\ node.width = node.height /\ node.width <= 48
    \/ role = "divider" /\ \/ (node.height <= 2 /\ node.width > 50)
                           \/ (node.width <= 2 /\ node.height > 50)

RuleConfidence(role) ==
    CASE role \in {"button", "input"} -> 90
      [] role \in {"card", "header"}  -> 85
      [] role \in {"avatar", "divider", "badge"} -> 80
      [] role = "icon" -> 70

\* C17: likelyRole and confidence are those of the first rule, in the order
\* button, input, card, header, avatar, icon, divider, badge, that the node
\* matches; a name containing button, btn or cta gives role button,
\* isInteractive true and confidence 0.9 whatever else matches; a node that
\* matches no rule has no likelyRole and confidence 0.
C17_FirstMatchingRoleWins ==
    output # <<>> =>
        LET hints == output[1]
            matching == {i \in DOMAIN RoleOrder : RuleMatches(RoleOrder[i], input)}
        IN  /\ matching = {} => ~Has(hints, "likelyRole") /\ hints.confidence = 0
            /\ matching # {} =>
                  LET first == RoleOrder[CHOOSE i \in matching : \A j \in matching : i <= j]
                  IN  /\ Has(hints, "likelyRole")
                      /\ hints.likelyRole = first
                      /\ hints.confidence = RuleConfidence(first)
            /\ RuleMatches("button", input) =>
                  /\ hints.likelyRole = "button"
                  /\ Has(hints, "isInteractive") /\ hints.isInteractive
                  /\ hints.confidence = 90

\* C17 witness: a node whose name holds a button keyword and a later rule's
\* keyword and whose size fits the icon rule was classified as a button.
C17_Witness ==
    /\ output # <<>>
    /\ Cardinality({i \in DOMAIN RoleOrder : RuleMatches(RoleOrder[i], input)}) >= 3
    /\ RuleMatches("icon", input)
    /\ output[1].likelyRole = "button"
    /\ output[1].confidence = 90

\* the lowercased name holds a decorative keyword
DecorativeName(node) ==
    \E kw \in {"bg", "background", "overlay"} : includes(toLowerCase(node.name), kw)

\* C18: isInteractive is true whenever the node has a reaction, isDecorative
\* is true whenever opacity < 0.1 or the lowercased name contains bg,
\* background or overlay, whatever role matched; a flag that is present is
\* true; and likelyRole and confidence are as the role rules alone left them.
C18_OverridesAreAdditive ==
    output # <<>> =>
        LET hints == output[1]
            byRules == RoleRules([confidence |-> 0], toLowerCase(input.name), input)
        IN  /\ (Has(input, "reactions") /\ input.reactions > 0) =>
                  Has(hints, "isInteractive") /\ hints.isInteractive
            /\ ((Has(input, "opacity") /\ input.opacity < 10) \/ DecorativeName(input)) =>
                  Has(hints, "isDecorative") /\ hints.isDecorative
            /\ Has(hints, "isInteractive") => hints.isInteractive
            /\ Has(hints, "isDecorative") => hints.isDecorative
            /\ Has(hints, "likelyRole") <=> Has(byRules, "likelyRole")
            /\ Has(hints, "likelyRole") => hints.likelyRole = byRules.likelyRole
            /\ hints.confidence = byRules.confidence
            /\ Has(byRules, "isInteractive") => Has(hints, "isInteractive")
            /\ Has(byRules, "isDecorative") => Has(hints, "isDecorative")

\* C18 witness: a card with a reaction and opacity below 0.1 was marked
\* interactive and decorative and kept its role and confidence.
C18_Witness ==
    /\ output # <<>>
    /\ Has(input, "reactions") /\ input.reactions > 0
    /\ Has(input, "opacity") /\ input.opacity < 10
    /\ ~DecorativeName(input)
    /\ output[1] = [confidence |-> 85, likelyRole |-> "card", isInteractive |-> TRUE,
                    isDecorative |-> TRUE]

-----------------------------------------------------------------------------
\* extractStyle.  style.cornerRadius is a number or an object: the number n is
\* held as [scalar |-> n].

Scalar(n) == [scalar |-> n]

IsScalar(v) == Has(v, "scalar")

\* if (prop in node) style[prop] = node[prop]
Copy(style, node, prop) ==
    IF Has(node, prop) THEN Assign(style, prop, node[prop]) ELSE style

\* if (prop in node && node[prop] !== figma.mixed) style[prop] = node[prop]
CopyUnmixed(style, node, prop) ==
    IF Has(node, prop) /\ ~IsMixed(node, prop) THEN Assign(style, prop, node[prop])
    ELSE style

\* if (prop in node && node[prop] !== figma.mixed)
\*     style[prop] = node[prop].map(serializePaint)
PaintsUnmixed(style, node, prop) ==
    IF Has(node, prop) /\ ~IsMixed(node, prop)
    THEN Assign(style, prop, MapPaints(node[prop]))
    ELSE style

\* if ("effects" in node && node.effects !== figma.mixed)
\*     style.effects = node.effects.map(serializeEffect)
EffectsUnmixed(style, node) ==
    IF Has(node, "effects") /\ ~IsMixed(node, "effects")
    THEN Assign(style, "effects", MapEffects(node.effects))
    ELSE style

\* a corner radius block that builds the object whenever there are four radii
CornerRadiusAlwaysObject(style, node) ==
    IF Has(node, "cornerRadius") /\ ~IsMixed(node, "cornerRadius")
    THEN Assign(style, "cornerRadius", Scalar(node.cornerRadius))
    ELSE IF Has(node, "topLeftRadius")
    THEN Assign(style, "cornerRadius",
                [topLeft |-> node.topLeftRadius, topRight |-> node.topRightRadius,
                 bottomLeft |-> node.bottomLeftRadius,
                 bottomRight |-> node.bottomRightRadius])
    ELSE style

\* the corner radius block of extractStyle
CornerRadius(style, node) ==
    IF Has(node, "cornerRadius") /\ ~IsMixed(node, "cornerRadius")
    THEN Assign(style, "cornerRadius", Scalar(node.cornerRadius))
    ELSE IF Has(node, "topLeftRadius")
    THEN LET tl == node.topLeftRadius
             tr == node.topRightRadius
             bl == node.bottomLeftRadius
             br == node.bottomRightRadius
         IN  IF tl = tr /\ tr = bl /\ bl = br
             THEN Assign(style, "cornerRadius", Scalar(tl))
             ELSE Assign(style, "cornerRadius",
                         [topLeft |-> tl, topRight |-> tr, bottomLeft |-> bl,
                          bottomRight |-> br])
    ELSE style

extractStyle(node) ==
    LET s1 == PaintsUnmixed(EmptyMap, node, "fills")
        s2 == PaintsUnmixed(s1, node, "strokes")
        s3 == CopyUnmixed(s2, node, "strokeWeight")
        s4 == Copy(s3, node, "strokeAlign")
        s5 == EffectsUnmixed(s4, node)
        s6 == Copy(s5, node, "opacity")
        s7 == Copy(s6, node, "blendMode")
        s8 == Copy(s7, node, "isMask")
        s9 == CornerRadius(s8, node)
    IN  Copy(s9, node, "clipsContent")

\* effects of a document: one of each kind the codec knows, and a noise effect
DropShadow ==
    [type |-> "DROP_SHADOW", color |-> "#00000040", offset |-> [x |-> 0, y |-> 4],
     radius |-> 8, visible |-> TRUE, blendMode |-> "NORMAL"]

LayerBlur == [type |-> "LAYER_BLUR", radius |-> 4, visible |-> TRUE]

NoiseEffect == [type |-> "NOISE", noiseSize |-> 1, visible |-> TRUE]

\* the object with the properties of a and b
Merge(a, b) ==
    [k \in DOMAIN a \cup DOMAIN b |->
        IF k = "mixed" THEN a.mixed \cup b.mixed
        ELSE IF k \in DOMAIN a THEN a[k] ELSE b[k]]

\* the ways a node has, lacks or mixes its fills, strokes and effects
PaintVariants ==
    {[mixed |-> {}],
     [fills |-> <<>>, mixed |-> {"fills"}],
     [fills |-> <<>>, strokes |-> <<SolidPaint>>, effects |-> <<>>, mixed |-> {}],
     [fills |-> <<SolidPaint, ImagePaint>>, strokes |-> <<>>,
      effects |-> <<DropShadow, LayerBlur>>, mixed |-> {}],
     [fills |-> <<GradientPaint, VideoPaint>>, strokes |-> <<VideoPaint, SolidPaint>>,
      effects |-> <<NoiseEffect, DropShadow>>, mixed |-> {}],
     [fills |-> <<SolidPaint>>, strokes |-> <<SolidPaint>>, effects |-> <<>>,
      mixed |-> {"effects"}],
     [fills |-> <<SolidPaint>>, strokes |-> <<>>, mixed |-> {"strokes"}]}

\* the radii a corner may have
Radii == {2, 4}

\* the ways a node has its corner radii: none; a uniform radius alone; a mixed
\* radius alone (a vector); four radii equal to the uniform one; four unequal
\* radii behind a mixed one; four radii without the uniform property
CornerVariants ==
    {[mixed |-> {}]}
    \cup {[cornerRadius |-> r, mixed |-> {}] : r \in {0, 8}}
    \cup {[cornerRadius |-> 0, mixed |-> {"cornerRadius"}]}
    \cup {[cornerRadius |-> r, topLeftRadius |-> r, topRightRadius |-> r,
           bottomLeftRadius |-> r, bottomRightRadius |-> r, mixed |-> {}] : r \in {8}}
    \cup {[cornerRadius |-> 0, topLeftRadius |-> c[1], topRightRadius |-> c[2],
           bottomLeftRadius |-> c[3], bottomRightRadius |-> c[4],
           mixed |-> {"cornerRadius"}] :
             c \in {d \in Radii \X Radii \X Radii \X Radii :
                       ~(d[1] = d[2] /\ d[2] = d[3] /\ d[3] = d[4])}}
    \cup {[topLeftRadius |-> tl, topRightRadius |-> tr, bottomLeftRadius |-> bl,
           bottomRightRadius |-> br, mixed |-> {}] :
             tl \in Radii, tr \in Radii, bl \in Radii, br \in Radii}

\* the ways a node has its remaining style properties
PlainVariants ==
    {[mixed |-> {}],
     [strokeWeight |-> 1, strokeAlign |-> "INSIDE", opacity |-> 100,
      blendMode |-> "PASS_THROUGH", isMask |-> FALSE, clipsContent |-> TRUE, mixed |-> {}],
     [strokeWeight |-> 0, strokeAlign |-> "CENTER", opacity |-> 50,
      blendMode |-> "NORMAL", isMask |-> TRUE, mixed |-> {"strokeWeight"}]}

StyleNodes ==
    {Merge(Merge(paints, corners), plain) :
        paints \in PaintVariants, corners \in CornerVariants, plain \in PlainVariants}

\* serializeNode calls extractStyle
ExtractStyleCall ==
    /\ output = <<>>
    /\ output' = <<extractStyle(input)>>
    /\ UNCHANGED <<passes, tasks, order, assets, posted, pendingUploads, uiPending,
                   answered, resolveCalls, input>>

InitExtractStyle ==
    /\ NoPass
    /\ input \in StyleNodes
    /\ output = <<>>

SpecExtractStyle == InitExtractStyle /\ [][ExtractStyleCall]_vars

\* the node's uniform cornerRadius exists and is not mixed
UniformRadius(node) == Has(node, "cornerRadius") /\ ~IsMixed(node, "cornerRadius")

\* the node exposes four corner radii
FourRadii(node) == Has(node, "topLeftRadius")

\* C19: style.cornerRadius is the node's uniform radius when that exists and
\* is not mixed; otherwise, with four corner radii, it is their common value
\* as a scalar iff all four are equal and else the object of the four source
\* radii; without a usable uniform radius and without four radii it is absent.
C19_CornerRadiusForm ==
    output # <<>> =>
        LET style == output[1] IN
        /\ UniformRadius(input) =>
              /\ Has(style, "cornerRadius")
              /\ IsScalar(style.cornerRadius)
              /\ style.cornerRadius.scalar = input.cornerRadius
        /\ (~UniformRadius(input) /\ FourRadii(input)) =>
              LET equal == /\ input.topLeftRadius = input.topRightRadius
                           /\ input.topRightRadius = input.bottomLeftRadius
                           /\ input.bottomLeftRadius = input.bottomRightRadius
              IN  /\ Has(style, "cornerRadius")
                  /\ IsScalar(style.cornerRadius) <=> equal
                  /\ equal => style.cornerRadius.scalar = input.topLeftRadius
                  /\ ~equal =>
                        style.cornerRadius =
                            [topLeft |-> input.topLeftRadius,
                             topRight |-> input.topRightRadius,
                             bottomLeft |-> input.bottomLeftRadius,
                             bottomRight |-> input.bottomRightRadius]
        /\ (~UniformRadius(input) /\ ~FourRadii(input)) => ~Has(style, "cornerRadius")

\* C19 witness: a node without a usable uniform radius and with four radii of
\* 4 got the scalar 4.
C19_Witness ==
    /\ output # <<>>
    /\ ~UniformRadius(input)
    /\ FourRadii(input)
    /\ input.topLeftRadius = 4
    /\ Has(output[1], "cornerRadius")
    /\ output[1].cornerRadius = Scalar(4)

\* C20: the fills, strokes and effects arrays of the style hold no null entry.
C20_NoNullEntries ==
    output # <<>> =>
        \A prop \in {"fills", "strokes", "effects"} :
            Has(output[1], prop) =>
                \A i \in DOMAIN output[1][prop] : ~IsNull(output[1][prop][i])

-----------------------------------------------------------------------------
\* The mixed sentinel, in extractStyle, extractText and the image export step

IsTextNode(node) == Has(node, "characters")

IsStyleNode(node) == Has(node, "mixed") /\ ~Has(node, "characters")

\* no helper is under analysis: the plugin serves its messages
NoNode == EmptyMap

InitMixed ==
    /\ NoPass
    /\ output = <<>>
    /\ \/ input \in StyleNodes
       \/ input \in TextNodes
       \/ input = NoNode

NextMixed ==
    \/ IsStyleNode(input) /\ ExtractStyleCall
    \/ IsTextNode(input) /\ ExtractTextCall
    \/ \E m \in ConvertMessages :
           /\ input = NoNode
           /\ Len(passes) = 0
           /\ ConvertSelection(m.selection, m.saveToFile)
    \/ \E p \in DOMAIN passes, ok \in BOOLEAN : CtxExportDone(p, ok)
    \/ \E p \in DOMAIN passes, n \in Nodes, ok \in BOOLEAN : AssetExportDone(p, n, ok)
    \/ \E req \in uiPending : \E msg \in Replies(req) : UploadResp(req, msg)

SpecMixed == InitMixed /\ [][NextMixed]_vars

\* the documented defaults of the top-level text properties
TextDefaults ==
    [fontSize |-> 14, fontName |-> [family |-> "Inter", style |-> "Regular"],
     fontWeight |-> 400, textDecoration |-> "NONE", textCase |-> "ORIGINAL",
     lineHeight |-> [unit |-> "AUTO"], letterSpacing |-> [unit |-> "PIXELS", value |-> 0]]

\* C21 (extractStyle): fills, strokes, strokeWeight and effects are absent when
\* their source is mixed and present when it exists and is not mixed; the
\* uniform cornerRadius is emitted when it is not mixed, and when it is mixed
\* the field is absent or built from the four radii.
C21_Style ==
    (output # <<>> /\ IsStyleNode(input)) =>
        /\ \A prop \in {"fills", "strokes", "strokeWeight", "effects"} :
              /\ (Has(input, prop) /\ IsMixed(input, prop)) => ~Has(output[1], prop)
              /\ (Has(input, prop) /\ ~IsMixed(input, prop)) => Has(output[1], prop)
        /\ UniformRadius(input) =>
              /\ Has(output[1], "cornerRadius")
              /\ output[1].cornerRadius = Scalar(input.cornerRadius)
        /\ (Has(input, "cornerRadius") /\ IsMixed(input, "cornerRadius")) =>
              IF FourRadii(input)
              THEN /\ Has(output[1], "cornerRadius")
                   /\ output[1].cornerRadius \in
                         {Scalar(input.topLeftRadius),
                          [topLeft |-> input.topLeftRadius,
                           topRight |-> input.topRightRadius,
                           bottomLeft |-> input.bottomLeftRadius,
                           bottomRight |-> input.bottomRightRadius]}
              ELSE ~Has(output[1], "cornerRadius")

\* C21 (extractText): a top-level property whose source is mixed has its
\* default, and one whose source is not mixed has the source value.
C21_Text ==
    (output # <<>> /\ IsTextNode(input)) =>
        /\ \A prop \in DOMAIN TextDefaults :
              output[1][prop] = IF IsMixed(input, prop) THEN TextDefaults[prop]
                                ELSE input[prop]
        /\ IsMixed(input, "paragraphSpacing") => ~Has(output[1], "paragraphSpacing")

\* C21 (image export): a node whose fills are mixed never has its image
\* exported nor an upload requested.
C21_Export ==
    \A p \in DOMAIN passes : \A n \in Nodes :
        FillsOf(n) = Mixed =>
            /\ tasks[p][n].pc \notin {"imgExport", "imgUpload"}
            /\ tasks[p][n].imgStep = Undefined
            /\ AssetReq(p, n) \notin uiPending \cup DOMAIN answered

\* C21: the mixed sentinel is never emitted: extractStyle drops a mixed fills,
\* strokes, strokeWeight, effects or uniform cornerRadius and keeps the ones
\* that are not mixed, extractText replaces every mixed top-level property by
\* its default, and a node with mixed fills triggers no image export.
C21_MixedNeverEmitted == C21_Style /\ C21_Text /\ C21_Export

\* C21 witness: a text whose characters differ in size and whose decoration,
\* case, line height and letter spacing are mixed was extracted.
C21_Witness ==
    /\ output # <<>>
    /\ IsTextNode(input)
    /\ {"fontSize", "textDecoration", "textCase", "lineHeight", "letterSpacing"}
          \subseteq input.mixed
    /\ input.styles[1].fontSize = 24
    /\ output[1].fontSize = 14
    /\ output[1].textDecoration = "NONE"

-----------------------------------------------------------------------------
\* calculateVisualContext.  visualWeight (a logarithm of the area times the
\* opacity) is a real number and is left out of the result.

\* a test that wants the visible flag to be there and true
IsVisiblePaintStrict(f) == Has(f, "visible") /\ f.visible

\* f.visible !== false
IsVisiblePaint(f) == ~(Has(f, "visible") /\ f.visible = FALSE)

\* (e.type === 'DROP_SHADOW' || e.type === 'INNER_SHADOW') && e.visible
IsVisibleShadow(e) ==
    /\ e.type \in {"DROP_SHADOW", "INNER_SHADOW"}
    /\ Has(e, "visible") /\ e.visible

calculateVisualContext(node) ==
    [hasBackground |->
        IF Has(node, "fills") /\ ~IsMixed(node, "fills")
        THEN Len(node.fills) > 0 /\ \E i \in DOMAIN node.fills : IsVisiblePaint(node.fills[i])
        ELSE FALSE,
     hasBorder |->
        IF Has(node, "strokes") /\ ~IsMixed(node, "strokes")
        THEN Len(node.strokes) > 0
        ELSE FALSE,
     hasShadow |->
        IF Has(node, "effects") /\ ~IsMixed(node, "effects")
        THEN \E i \in DOMAIN node.effects : IsVisibleShadow(node.effects[i])
        ELSE FALSE]

HiddenShadow == [DropShadow EXCEPT !.visible = FALSE]

InnerShadow == [DropShadow EXCEPT !.type = "INNER_SHADOW"]

HiddenBlur == [LayerBlur EXCEPT !.visible = FALSE]

\* the nodes of a document as calculateVisualContext reads them
VisualNodes ==
    {Merge(Merge(fills, strokes), effects) :
        fills \in {[mixed |-> {}],
                   [fills |-> <<>>, mixed |-> {"fills"}],
                   [fills |-> <<>>, mixed |-> {}],
                   [fills |-> <<GradientPaint>>, mixed |-> {}],
                   [fills |-> <<GradientPaint, SolidPaint>>, mixed |-> {}],
                   [fills |-> <<ImagePaint>>, mixed |-> {}]},
        strokes \in {[mixed |-> {}],
                     [strokes |-> <<>>, mixed |-> {"strokes"}],
                     [strokes |-> <<>>, mixed |-> {}],
                     [strokes |-> <<GradientPaint>>, mixed |-> {}]},
        effects \in {[mixed |-> {}],
                     [effects |-> <<>>, mixed |-> {"effects"}],
                     [effects |-> <<>>, mixed |-> {}],
                     [effects |-> <<LayerBlur>>, mixed |-> {}],
                     [effects |-> <<HiddenShadow, LayerBlur>>, mixed |-> {}],
                     [effects |-> <<HiddenBlur, InnerShadow>>, mixed |-> {}],
                     [effects |-> <<DropShadow>>, mixed |-> {}]}}

\* serializeNode calls calculateVisualContext
CalculateVisualContextCall ==
    /\ output = <<>>
    /\ output' = <<calculateVisualContext(input)>>
    /\ UNCHANGED <<passes, tasks, order, assets, posted, pendingUploads, uiPending,
                   answered, resolveCalls, input>>

InitCalculateVisualContext ==
    /\ NoPass
    /\ input \in VisualNodes
    /\ output = <<>>

SpecCalculateVisualContext ==
    InitCalculateVisualContext /\ [][CalculateVisualContextCall]_vars

\* prop is a list the node has and that is not mixed
UsableList(node, prop) == Has(node, prop) /\ ~IsMixed(node, prop)

\* C22: hasBackground is true iff fills is a non-mixed, non-empty list with an
\* entry whose visible flag is not false; hasBorder is true iff strokes is a
\* non-mixed, non-empty list; hasShadow is true iff effects is a non-mixed list
\* with a DROP_SHADOW or INNER_SHADOW whose visible flag is true.
C22_VisualContextFlags ==
    output # <<>> =>
        /\ output[1].hasBackground <=>
              /\ UsableList(input, "fills")
              /\ input.fills # <<>>
              /\ \E i \in DOMAIN input.fills :
                    ~Has(input.fills[i], "visible") \/ input.fills[i].visible
        /\ output[1].hasBorder <=>
              (UsableList(input, "strokes") /\ input.strokes # <<>>)
        /\ output[1].hasShadow <=>
              /\ UsableList(input, "effects")
              /\ \E i \in DOMAIN input.effects :
                    /\ input.effects[i].type \in {"DROP_SHADOW", "INNER_SHADOW"}
                    /\ input.effects[i].visible

\* C22 witness: a node whose only visible fill has no visible flag, whose one
\* stroke is hidden and whose effects are a hidden blur and a visible inner
\* shadow has all three flags.
C22_Witness ==
    /\ output # <<>>
    /\ UsableList(input, "fills") /\ input.fills = <<GradientPaint, SolidPaint>>
    /\ UsableList(input, "strokes") /\ input.strokes = <<GradientPaint>>
    /\ UsableList(input, "effects") /\ input.effects = <<HiddenBlur, InnerShadow>>
    /\ output[1] = [hasBackground |-> TRUE, hasBorder |-> TRUE, hasShadow |-> TRUE]

-----------------------------------------------------------------------------
\* extractLayout

\* the properties a node with auto layout exposes together
AutoLayoutProps ==
    {"layoutMode", "primaryAxisSizingMode", "counterAxisSizingMode",
     "primaryAxisAlignItems", "counterAxisAlignItems", "itemSpacing",
     "paddingTop", "paddingRight", "paddingBottom", "paddingLeft"}

\* the properties extractLayout copies when the node has them
OptionalLayoutProps ==
    {"layoutWrap", "layoutPositioning", "layoutGrow", "layoutAlign", "constraints",
     "minWidth", "maxWidth", "minHeight", "maxHeight"}

\* what extractLayout writes for a node with auto layout
AutoLayoutGroup ==
    {"layoutMode", "primaryAxisSizingMode", "counterAxisSizingMode",
     "primaryAxisAlignItems", "counterAxisAlignItems", "itemSpacing", "padding"}

\* if ("layoutMode" in node) { ... if ("layoutWrap" in node) ... }
AutoLayout(layout, node) ==
    IF Has(node, "layoutMode")
    THEN LET group ==
                 [k \in DOMAIN layout \cup AutoLayoutGroup |->
                     IF k = "padding"
                     THEN [top |-> node.paddingTop, right |-> node.paddingRight,
                           bottom |-> node.paddingBottom, left |-> node.paddingLeft]
                     ELSE IF k \in AutoLayoutGroup THEN node[k]
                     ELSE layout[k]]
         IN  Copy(group, node, "layoutWrap")
    ELSE layout

\* if ("rotation" in node && node.rotation !== 0) layout.rotation = node.rotation
Rotation(layout, node) ==
    IF Has(node, "rotation") /\ node.rotation # 0
    THEN Assign(layout, "rotation", node.rotation)
    ELSE layout

extractLayout(node) ==
    LET base == [width |-> node.width, height |-> node.height, x |-> node.x, y |-> node.y]
        l1 == AutoLayout(Rotation(base, node), node)
        l2 == Copy(l1, node, "layoutPositioning")
        l3 == Copy(l2, node, "layoutGrow")
        l4 == Copy(l3, node, "layoutAlign")
        l5 == Copy(l4, node, "constraints")
        l6 == Copy(l5, node, "minWidth")
        l7 == Copy(l6, node, "maxWidth")
        l8 == Copy(l7, node, "minHeight")
    IN  Copy(l8, node, "maxHeight")

\* a frame with every layout property (rotation in degrees)
FullLayoutNode ==
    [width |-> 200, height |-> 100, x |-> 16, y |-> 24, rotation |-> 90,
     layoutMode |-> "HORIZONTAL", primaryAxisSizingMode |-> "FIXED",
     counterAxisSizingMode |-> "AUTO", primaryAxisAlignItems |-> "CENTER",
     counterAxisAlignItems |-> "MIN", itemSpacing |-> 8,
     paddingTop |-> 1, paddingRight |-> 2, paddingBottom |-> 3, paddingLeft |-> 4,
     layoutWrap |-> "WRAP", layoutPositioning |-> "ABSOLUTE", layoutGrow |-> 1,
     layoutAlign |-> "STRETCH",
     constraints |-> [horizontal |-> "MIN", vertical |-> "MAX"],
     minWidth |-> 10, maxWidth |-> 400, minHeight |-> 5, maxHeight |-> 300]

\* the nodes of a document as extractLayout reads them: any of the optional
\* properties, auto layout or not, rotation absent, 0 or 90
LayoutNodes ==
    {[k \in {"width", "height", "x", "y"} \cup optional \cup auto \cup rotation.has |->
         IF k = "rotation" THEN rotation.value ELSE FullLayoutNode[k]] :
        optional \in SUBSET OptionalLayoutProps,
        auto \in {{}, AutoLayoutProps},
        rotation \in {[has |-> {}, value |-> 0],
                      [has |-> {"rotation"}, value |-> 0],
                      [has |-> {"rotation"}, value |-> 90]}}

\* serializeNode calls extractLayout
ExtractLayoutCall ==
    /\ output = <<>>
    /\ output' = <<extractLayout(input)>>
    /\ UNCHANGED <<passes, tasks, order, assets, posted, pendingUploads, uiPending,
                   answered, resolveCalls, input>>

InitExtractLayout ==
    /\ NoPass
    /\ input \in LayoutNodes
    /\ output = <<>>

SpecExtractLayout == InitExtractLayout /\ [][ExtractLayoutCall]_vars

\* C23: each of layoutWrap, layoutPositioning, layoutGrow, layoutAlign,
\* constraints, minWidth, maxWidth, minHeight and maxHeight is in the layout iff
\* the node has it, whatever else the node has; the auto-layout group is there
\* as a whole or not at all; rotation is there iff the node has a nonzero one.
C23_CapabilitiesIndependent ==
    output # <<>> =>
        /\ \A prop \in OptionalLayoutProps :
              /\ Has(output[1], prop) <=> Has(input, prop)
              /\ Has(input, prop) => output[1][prop] = input[prop]
        /\ \/ AutoLayoutGroup \subseteq DOMAIN output[1]
           \/ AutoLayoutGroup \cap DOMAIN output[1] = {}
        /\ Has(output[1], "rotation") <=> (Has(input, "rotation") /\ input.rotation # 0)

-----------------------------------------------------------------------------
\* after the terminal message

\* C24: once a pass has posted its selection-data or error message, it posts
\* nothing more: no upload-req and no message of any other kind.
C24_SilentAfterTerminal ==
    [][ \A p \in DOMAIN passes :
           TerminalMsgs(p) # <<>> => posted'[p] = posted[p] ]_vars

\* the positions of the upload-req messages pass p has posted
UploadReqAt(p) == {i \in DOMAIN posted[p] : posted[p][i].type = "upload-req"}

\* C25: in one pass the context upload-req is the first upload-req, no other
\* upload-req is sent while it is unanswered, and two requests of the pass are
\* never pending together when one was issued by a node and the other by that
\* node or one of its descendants.
C25_OwnStepsBeforeChildren ==
    /\ \A p \in DOMAIN passes : \A i \in UploadReqAt(p) :
          posted[p][i].id = ContextId(RootOf(p)) => \A j \in UploadReqAt(p) : i <= j
    /\ \A req \in uiPending :
          req.kind = "context" => \A i \in UploadReqAt(req.pass) : posted[req.pass][i].id = req.id
    /\ \A a, b \in uiPending :
          (a # b /\ a.pass = b.pass) => b.node \notin Subtree(a.node)

\* C26: an upload-resp whose id has no entry in the pending table changes
\* nothing: the table, the resolvers called, the messages posted, the calls of
\* serializeNode and the passes are as before.
C26_StaleResponseIsNoOp ==
    [][ \A req \in uiPending \ uiPending' :
           req.id \notin DOMAIN pendingUploads =>
               /\ pendingUploads' = pendingUploads
               /\ resolveCalls' = resolveCalls
               /\ posted' = posted
               /\ tasks' = tasks /\ order' = order /\ assets' = assets
               /\ passes' = passes ]_vars

\* C26 witness: two requests under one id have both been answered, the
\* resolver of the earlier one was never called (the later request replaced it
\* and took the first answer, the second answer found no entry), and another
\* request was pending in the table all along.
C26_Witness ==
    \E a, b \in DOMAIN answered :
        /\ a.id = b.id /\ a.pass < b.pass
        /\ [pass |-> a.pass, node |-> a.node, kind |-> a.kind] \notin DOMAIN resolveCalls
        /\ [pass |-> b.pass, node |-> b.node, kind |-> b.kind] \in DOMAIN resolveCalls
        /\ a.id \notin DOMAIN pendingUploads
        /\ pendingUploads # EmptyMap

-----------------------------------------------------------------------------
\* the styled-segment scan of extractText, one iteration of the while loop at
\* a time; output holds the local variables of the scan

\* const segments = []; if (length > 0) { try { let currentPos = 0; ...
ScanStart ==
    /\ output = <<>>
    /\ output' = <<[currentPos |-> 0, segments |-> <<>>,
                    pc |-> IF Len(input.characters) > 0 THEN "while" ELSE "done"]>>
    /\ UNCHANGED <<passes, tasks, order, assets, posted, pendingUploads, uiPending,
                   answered, resolveCalls, input>>

\* one iteration of while (currentPos < length), or the catch when a range
\* query throws in it
WhileIteration ==
    /\ output # <<>>
    /\ output[1].pc = "while"
    /\ output[1].currentPos < Len(input.characters)
    /\ LET currentPos == output[1].currentPos
           first == input.styles[currentPos + 1]
           styleEnd == StyleEnd(input, currentPos, currentPos + 1)
       IN  output' =
             IF RangeThrows(input, currentPos) \/ styleEnd = Thrown
             THEN <<[output[1] EXCEPT !.pc = "caught"]>>
             ELSE <<[currentPos |-> styleEnd,
                     segments |->
                        IF /\ ~IsMixed(first, "fontSize")
                           /\ ~IsMixed(first, "fontName")
                           /\ ~IsMixed(first, "fontWeight")
                        THEN Append(output[1].segments, Segment(input, currentPos, styleEnd))
                        ELSE output[1].segments,
                     pc |-> "while"]>>
    /\ UNCHANGED <<passes, tasks, order, assets, posted, pendingUploads, uiPending,
                   answered, resolveCalls, input>>

\* the test currentPos < length fails
WhileExit ==
    /\ output # <<>>
    /\ output[1].pc = "while"
    /\ output[1].currentPos >= Len(input.characters)
    /\ output' = <<[output[1] EXCEPT !.pc = "done"]>>
    /\ UNCHANGED <<passes, tasks, order, assets, posted, pendingUploads, uiPending,
                   answered, resolveCalls, input>>

NextScan == ScanStart \/ WhileIteration \/ WhileExit

\* the scan is synchronous code: it is never preempted, so a step that can be
\* taken is taken
SpecScan == InitExtractText /\ [][NextScan]_vars /\ WF_vars(NextScan)

\* the scan has left the try statement
ScanEnded == output # <<>> /\ output[1].pc \in {"done", "caught"}

\* C27: the scan ends for every text and every assignment of styles: each
\* iteration of the while loop that does not throw moves the scan position
\* forward, the position never exceeds the length of the text, and every segment
\* has at least one character.
C27_ScanTerminates ==
    /\ [][ (output # <<>> /\ output[1].pc = "while" /\ output'[1].pc = "while") =>
              output'[1].currentPos > output[1].currentPos ]_vars
    /\ [](output # <<>> =>
              /\ output[1].currentPos <= Len(input.characters)
              /\ \A k \in DOMAIN output[1].segments :
                    output[1].segments[k].end > output[1].segments[k].start)
    /\ <>ScanEnded

\* C27 witness: a text of four characters in three runs has been scanned to
\* its end in three iterations.
C27_Witness ==
    /\ output # <<>>
    /\ output[1].pc = "done"
    /\ Len(input.characters) = 4
    /\ output[1].currentPos = 4
    /\ Len(output[1].segments) = 3

-----------------------------------------------------------------------------
\* GeminiService._runWithRetries and _runWithTimeout

MaxAttempts == 3

\* what runner.runAsync does in one attempt: it ends with a final text (trimmed,
\* possibly empty), fails, or is still running when the timer fires
AgentRuns ==
    {[kind |-> "text", value |-> "class Home extends StatelessWidget {}"],
     [kind |-> "text", value |-> ""],
     [kind |-> "rejected", value |-> "fetch failed"],
     [kind |-> "rejected", value |-> "429 Too Many Requests"],
     [kind |-> "pending", value |-> ""]}

\* Promise.race([runPromise, timeoutPromise])
runWithTimeout(run) ==
    IF run.kind = "text" THEN [resolved |-> TRUE, value |-> run.value]
    ELSE IF run.kind = "rejected" THEN [resolved |-> FALSE, value |-> run.value]
    ELSE [resolved |-> FALSE, value |-> "AI request timed out after 60000ms"]

\* if (result) return result; throw new Error('Agent did not return a response.')
AttemptOutcome(run) ==
    LET settled == runWithTimeout(run) IN
    IF settled.resolved /\ settled.value = ""
    THEN [resolved |-> FALSE, value |-> "Agent did not return a response."]
    ELSE settled

\* `AI request failed after ${maxAttempts} attempts: ${lastError?.message || 'Unknown error'}`
FailedAfter(maxAttempts, lastError) ==
    "AI request failed after " \o ToString(maxAttempts) \o " attempts: " \o
        (IF lastError = <<>> \/ lastError = <<"">> THEN "Unknown error" ELSE lastError[1])

\* a catch block that sleeps after every failed attempt
SleepsAfterEveryAttempt(attempt, maxAttempts) == attempt <= maxAttempts

\* if (attempt < maxAttempts)
SleepsBetweenAttempts(attempt, maxAttempts) == attempt < maxAttempts

\* attempt += 1 and the loop test; after the loop, the throw
NextAttempt(run) ==
    IF run.attempt + 1 <= input.maxAttempts
    THEN [run EXCEPT !.attempt = run.attempt + 1, !.pc = "attempt"]
    ELSE [run EXCEPT !.attempt = run.attempt + 1, !.pc = "thrown",
                     !.thrown = <<FailedAfter(input.maxAttempts, run.lastError)>>]

\* _runWithRetries is called: lastError = null, attempt = 1
RunWithRetries ==
    /\ output = <<>>
    /\ output' = <<[pc |-> "attempt", attempt |-> 1, invoked |-> 0, lastError |-> <<>>,
                    errors |-> <<>>, sleeps |-> <<>>, result |-> <<>>, thrown |-> <<>>]>>
    /\ UNCHANGED <<passes, tasks, order, assets, posted, pendingUploads, uiPending,
                   answered, resolveCalls, input>>

\* the await of _runWithTimeout ends: return, or the catch block
AttemptSettles ==
    /\ output # <<>>
    /\ output[1].pc = "attempt"
    /\ LET run == output[1]
           outcome == AttemptOutcome(input.runs[run.attempt])
           invoked == [run EXCEPT !.invoked = run.invoked + 1]
           caught == [invoked EXCEPT !.lastError = <<outcome.value>>,
                                     !.errors = Append(run.errors, outcome.value)]
       IN  output' =
             IF outcome.resolved
             THEN <<[invoked EXCEPT !.pc = "returned", !.result = <<outcome.value>>]>>
             ELSE IF SleepsBetweenAttempts(run.attempt, input.maxAttempts)
             THEN <<[caught EXCEPT !.pc = "sleep",
                                   !.sleeps = Append(run.sleeps, 500 * run.attempt)]>>
             ELSE <<NextAttempt(caught)>>
    /\ UNCHANGED <<passes, tasks, order, assets, posted, pendingUploads, uiPending,
                   answered, resolveCalls, input>>

\* the timer of _sleep fires
SleepDone ==
    /\ output # <<>>
    /\ output[1].pc = "sleep"
    /\ output' = <<NextAttempt(output[1])>>
    /\ UNCHANGED <<passes, tasks, order, assets, posted, pendingUploads, uiPending,
                   answered, resolveCalls, input>>

\* a call of _runWithRetries with maxAttempts attempts allowed, and what the
\* agent would do in each of them
InitRunWithRetries ==
    /\ NoPass
    /\ output = <<>>
    /\ \E maxAttempts \in 1..MaxAttempts :
          input \in [maxAttempts : {maxAttempts}, runs : [1..maxAttempts -> AgentRuns]]

NextRunWithRetries == RunWithRetries \/ AttemptSettles \/ SleepDone

SpecRunWithRetries == InitRunWithRetries /\ [][NextRunWithRetries]_vars

\* attempt i of the call gives a non-empty text
Succeeds(i) == input.runs[i].kind = "text" /\ input.runs[i].value # ""

\* the first attempt that gives a non-empty text, 0 if none does
FirstSuccess ==
    IF \E i \in 1..input.maxAttempts : Succeeds(i)
    THEN CHOOSE i \in 1..input.maxAttempts : Succeeds(i) /\ \A j \in 1..(i - 1) : ~Succeeds(j)
    ELSE 0

\* C28: the agent is invoked at most maxAttempts times; the call returns the
\* first non-empty result and makes no further attempt; an empty result counts
\* as a failed attempt like an error or a timeout; the sleeps are 500 ms times
\* the number of the failed attempt, one between two attempts and none after the
\* last; the call throws 'AI request failed after maxAttempts attempts: ' with
\* the last error's message iff every attempt fails.
C28_RetriesAreBounded ==
    output # <<>> =>
        LET run == output[1]
            ended == run.pc \in {"returned", "thrown"}
        IN  /\ run.invoked <= input.maxAttempts
            /\ run.sleeps = [i \in 1..Len(run.sleeps) |-> 500 * i]
            /\ \A i \in 1..Len(run.errors) : ~Succeeds(i)
            /\ run.pc = "attempt" =>
                  /\ run.invoked = run.attempt - 1
                  /\ Len(run.sleeps) = run.invoked /\ Len(run.errors) = run.invoked
            /\ run.pc = "sleep" =>
                  /\ run.invoked = run.attempt /\ run.invoked < input.maxAttempts
                  /\ Len(run.sleeps) = run.invoked /\ Len(run.errors) = run.invoked
            /\ ended => Len(run.sleeps) = run.invoked - 1
            /\ run.pc = "returned" =>
                  /\ FirstSuccess = run.invoked
                  /\ run.result = <<input.runs[run.invoked].value>>
                  /\ run.thrown = <<>>
            /\ run.pc = "thrown" =>
                  /\ FirstSuccess = 0
                  /\ run.invoked = input.maxAttempts
                  /\ run.result = <<>>
                  /\ run.thrown = <<"AI request failed after " \o ToString(input.maxAttempts)
                                      \o " attempts: " \o run.errors[run.invoked]>>
                  /\ input.runs[run.invoked].kind = "text" =>
                        run.errors[run.invoked] = "Agent did not return a response."
            /\ (ended /\ FirstSuccess = 0) => run.pc = "thrown"

\* C28 witness: three attempts allowed, the first timed out, the second gave
\* an empty text, the third a text; the call slept 500 and 1000 ms and returned.
C28_Witness ==
    /\ output # <<>>
    /\ input.maxAttempts = 3
    /\ input.runs[1].kind = "pending"
    /\ input.runs[2] = [kind |-> "text", value |-> ""]
    /\ output[1].pc = "returned"
    /\ output[1].invoked = 3
    /\ output[1].sleeps = <<500, 1000>>
    /\ output[1].errors = <<"AI request timed out after 60000ms",
                            "Agent did not return a response.">>

-----------------------------------------------------------------------------
\* GeminiService.fixFlutterProjectWeb

MaxFixAttempts == 3

\* how a flutter command ends: <<>> when it exits with status 0, else the
\* message of the Error _runFlutter throws
FlutterOk == <<>>

BuildOutcomes ==
    {FlutterOk,
     <<"lib/main.dart:12:5: Error: Expected ';' after this.">>,
     <<"lib/home.dart:40:9: Error: The getter 'colr' isn't defined.">>,
     <<"Command failed: flutter build web">>}

PubGetOutcomes == {FlutterOk, <<"Because app depends on foo any which doesn't exist">>}

\* how _runAgentOnce ends: <<>> when the agent ran to completion, else the
\* message of the rejection
AgentOutcomes == {<<>>, <<"fetch failed">>, <<"Agent fix timed out after 60000ms">>}

\* `Build failed after ${maxFixAttempts} attempts: ${lastError}`
BuildFailedAfter(maxFixAttempts, lastError) ==
    "Build failed after " \o ToString(maxFixAttempts) \o " attempts: " \o lastError

Event(op, attempt, outcome) == [op |-> op, attempt |-> attempt, outcome |-> outcome]

\* the for statement's test at the given attempt; after the loop, the throw
BuildAttempt(fix, attempt) ==
    IF attempt <= input.maxFixAttempts
    THEN [fix EXCEPT !.attempt = attempt, !.pc = "pub get"]
    ELSE [fix EXCEPT !.attempt = attempt, !.pc = "thrown",
                     !.thrown = <<BuildFailedAfter(input.maxFixAttempts, fix.lastError)>>]

\* fixFlutterProjectWeb is called: validateProject, the runner and its session,
\* lastError = '', attempt = 1
FixFlutterProjectWeb(isValid) ==
    /\ output = <<>>
    /\ LET fix == [pc |-> "pub get", attempt |-> 1, lastError |-> "", log |-> <<>>,
                   result |-> <<>>, thrown |-> <<>>]
       IN  output' =
             IF isValid THEN <<BuildAttempt(fix, 1)>>
             ELSE <<[fix EXCEPT !.pc = "thrown",
                                !.thrown = <<"Invalid Flutter project (pubspec.yaml not found).">>]>>
    /\ UNCHANGED <<passes, tasks, order, assets, posted, pendingUploads, uiPending,
                   answered, resolveCalls, input>>

\* await this._runFlutter(projectPath, ['pub', 'get'], ...) ends
PubGetDone(outcome) ==
    /\ output # <<>>
    /\ output[1].pc = "pub get"
    /\ LET fix == [output[1] EXCEPT
                      !.log = Append(@, Event("pub get", output[1].attempt, outcome))]
       IN  output' =
             IF outcome = FlutterOk THEN <<[fix EXCEPT !.pc = "build web"]>>
             ELSE <<[fix EXCEPT !.pc = "thrown", !.thrown = outcome]>>
    /\ UNCHANGED <<passes, tasks, order, assets, posted, pendingUploads, uiPending,
                   answered, resolveCalls, input>>

\* await this._runFlutter(projectPath, ['build', 'web'], ...) ends: return, or
\* the catch block and the call of _runAgentOnce
BuildWebDone(outcome) ==
    /\ output # <<>>
    /\ output[1].pc = "build web"
    /\ LET fix == [output[1] EXCEPT
                      !.log = Append(@, Event("build web", output[1].attempt, outcome))]
       IN  output' =
             IF outcome = FlutterOk
             THEN <<[fix EXCEPT !.pc = "returned",
                                !.result = <<[success |-> TRUE, attempts |-> fix.attempt]>>]>>
             ELSE <<[fix EXCEPT !.pc = "fix agent", !.lastError = outcome[1]]>>
    /\ UNCHANGED <<passes, tasks, order, assets, posted, pendingUploads, uiPending,
                   answered, resolveCalls, input>>

\* await this._runAgentOnce(...) ends: the next attempt, or the rejection
\* leaves fixFlutterProjectWeb
RunAgentOnceDone(outcome) ==
    /\ output # <<>>
    /\ output[1].pc = "fix agent"
    /\ LET fix == [output[1] EXCEPT
                      !.log = Append(@, Event("fix agent", output[1].attempt, outcome))]
       IN  output' =
             IF outcome = <<>> THEN <<BuildAttempt(fix, fix.attempt + 1)>>
             ELSE <<[fix EXCEPT !.pc = "thrown", !.thrown = outcome]>>
    /\ UNCHANGED <<passes, tasks, order, assets, posted, pendingUploads, uiPending,
                   answered, resolveCalls, input>>

\* a call of fixFlutterProjectWeb with options.maxFixAttempts
InitFixFlutterProjectWeb ==
    /\ NoPass
    /\ output = <<>>
    /\ input \in [maxFixAttempts : 1..MaxFixAttempts]

NextFixFlutterProjectWeb ==
    \/ \E isValid \in BOOLEAN : FixFlutterProjectWeb(isValid)
    \/ \E outcome \in PubGetOutcomes : PubGetDone(outcome)
    \/ \E outcome \in BuildOutcomes : BuildWebDone(outcome)
    \/ \E outcome \in AgentOutcomes : RunAgentOnceDone(outcome)

SpecFixFlutterProjectWeb == InitFixFlutterProjectWeb /\ [][NextFixFlutterProjectWeb]_vars

\* the positions in the log of the runs of op
RunsOf(op) == {i \in DOMAIN output[1].log : output[1].log[i].op = op}

\* the build logged at position i failed
BuildFailedAt(i) == output[1].log[i].op = "build web" /\ output[1].log[i].outcome # FlutterOk

\* C29: at most maxFixAttempts builds are run; the call returns
\* {success: true, attempts: k} for the first build k that succeeds; the fix
\* agent is invoked once after each failed build and never after a successful
\* one; the call never ends with a completed fix that no build follows; it
\* throws 'Build failed after maxFixAttempts attempts' iff every build fails
\* (and neither pub get nor the fix agent failed).
C29_EveryFixIsBuilt ==
    output # <<>> =>
        LET fix == output[1]
            log == fix.log
            ended == fix.pc \in {"returned", "thrown"}
            allFailed == /\ Cardinality(RunsOf("build web")) = input.maxFixAttempts
                         /\ \A i \in RunsOf("build web") : BuildFailedAt(i)
        IN  /\ Cardinality(RunsOf("build web")) <= input.maxFixAttempts
            /\ fix.pc = "returned" =>
                  /\ log[Len(log)] = Event("build web", fix.attempt, FlutterOk)
                  /\ \A i \in RunsOf("build web") : i < Len(log) => BuildFailedAt(i)
                  /\ fix.result = <<[success |-> TRUE,
                                     attempts |-> Cardinality(RunsOf("build web"))]>>
            /\ \A i \in DOMAIN log :
                  /\ BuildFailedAt(i) =>
                        IF i = Len(log) THEN fix.pc = "fix agent"
                        ELSE log[i + 1].op = "fix agent"
                  /\ log[i].op = "fix agent" => i > 1 /\ BuildFailedAt(i - 1)
            /\ fix.pc = "fix agent" => log # <<>> /\ BuildFailedAt(Len(log))
            /\ (ended /\ log # <<>>) => log[Len(log)] # Event("fix agent", fix.attempt - 1, <<>>)
            /\ (fix.pc = "thrown" /\
                fix.thrown = <<BuildFailedAfter(input.maxFixAttempts, fix.lastError)>>)
                  <=> (ended /\ allFailed /\ log[Len(log)].outcome \in {FlutterOk, <<>>})

-----------------------------------------------------------------------------
\* ProjectService.saveAssets

MaxAssets == 3

\* the characters /[^a-zA-Z0-9-_]/ leaves alone
NameCharacters == UpperCaseLetters \o LowerCaseLetters \o "0123456789-_"

\* asset.name.replace(/[^a-zA-Z0-9-_]/g, '_')
RECURSIVE SanitizeName(_)
SanitizeName(name) ==
    IF name = "" THEN ""
    ELSE LET c == SubSeq(name, 1, 1)
         IN  (IF includes(NameCharacters, c) THEN c ELSE "_")
                \o SanitizeName(SubSeq(name, 2, Len(name)))

\* the last element of str.split('_')
LastPart(str) ==
    LET at == {i \in 1..Len(str) : SubSeq(str, i, i) = "_"}
    IN  IF at = {} THEN str
        ELSE SubSeq(str, (CHOOSE i \in at : \A j \in at : j <= i) + 1, Len(str))

\* str.replace(search, ''): the first occurrence of search is removed
RemoveFirst(str, search) ==
    LET at == {i \in 1..(Len(str) - Len(search) + 1) :
                  SubSeq(str, i, i + Len(search) - 1) = search}
    IN  IF at = {} THEN str
        ELSE LET i == CHOOSE i \in at : \A j \in at : i <= j
             IN  SubSeq(str, 1, i - 1) \o SubSeq(str, i + Len(search), Len(str))

\* `${safeName}${uniqueSuffix}.png`
DestFileName(asset) ==
    LET safeName == SanitizeName(asset.name)
        uniqueSuffix == IF includes(asset.filename, "_")
                        THEN "_" \o RemoveFirst(LastPart(asset.filename), ".png")
                        ELSE ""
    IN  safeName \o uniqueSuffix \o ".png"

\* the entries the plugin and the upload endpoint produce; filename "" stands
\* for an entry without filename
AssetEntries ==
    {[name |-> "hero_image", filename |-> "hero_image_17.png"],
     [name |-> "icon/close", filename |-> "icon_close_18.png"],
     [name |-> "logo", filename |-> ""],
     [name |-> "Photo 1", filename |-> "upload.png"]}

\* a try block that maps the asset before it copies the file
CopyAssetMapsFirst(save, nodeId, asset, copyOk, unlinkOk) ==
    LET mapped == [save EXCEPT !.assetMap = MapSet(@, nodeId,
                                   "assets/images/" \o DestFileName(asset))]
    IN  IF copyOk /\ asset.filename \in save.uploads
        THEN [mapped EXCEPT !.images = @ \cup {DestFileName(asset)},
                            !.copied = Append(@, "copied"),
                            !.uploads = IF unlinkOk THEN @ \ {asset.filename} ELSE @]
        ELSE [mapped EXCEPT !.copied = Append(@, "failed")]

\* try { copyFile; assetMap[nodeId] = ...; try { unlink } catch {} } catch {}:
\* the copy fails when the temp file is missing, and may fail otherwise
CopyAsset(save, nodeId, asset, copyOk, unlinkOk) ==
    IF copyOk /\ asset.filename \in save.uploads
    THEN [save EXCEPT !.images = @ \cup {DestFileName(asset)},
                      !.assetMap = MapSet(@, nodeId, "assets/images/" \o DestFileName(asset)),
                      !.copied = Append(@, "copied"),
                      !.uploads = IF unlinkOk THEN @ \ {asset.filename} ELSE @]
    ELSE [save EXCEPT !.copied = Append(@, "failed")]

\* the for statement's test: the next entry, or return assetMap
NextEntry(save, index) ==
    [save EXCEPT !.index = index,
                 !.pc = IF index <= Len(input.assets) THEN "for" ELSE "returned"]

\* saveAssets is called: mkdir of assets/images, then the first entry
SaveAssets(mkdirOk) ==
    /\ output = <<>>
    /\ LET save == [pc |-> "for", index |-> 1, assetMap |-> EmptyMap,
                    uploads |-> input.uploads, images |-> {}, copied |-> <<>>]
       IN  output' = IF mkdirOk THEN <<NextEntry(save, 1)>>
                     ELSE <<[save EXCEPT !.pc = "thrown"]>>
    /\ UNCHANGED <<passes, tasks, order, assets, posted, pendingUploads, uiPending,
                   answered, resolveCalls, input>>

\* one iteration of the loop over Object.entries(assets)
ForEntry(copyOk, unlinkOk) ==
    /\ output # <<>>
    /\ output[1].pc = "for"
    /\ LET save == output[1]
           asset == input.assets[save.index]
           done == IF asset.filename = ""
                   THEN [save EXCEPT !.copied = Append(@, "skipped")]
                   ELSE CopyAsset(save, NodeId(save.index), asset, copyOk, unlinkOk)
       IN  output' = <<NextEntry(done, save.index + 1)>>
    /\ UNCHANGED <<passes, tasks, order, assets, posted, pendingUploads, uiPending,
                   answered, resolveCalls, input>>

\* a call of saveAssets: the entry of node i is assets[i]; uploads holds the
\* temp files that exist
InitSaveAssets ==
    /\ NoPass
    /\ output = <<>>
    /\ \E len \in 0..MaxAssets :
          input \in [assets : [1..len -> AssetEntries],
                     uploads : SUBSET {"hero_image_17.png", "icon_close_18.png", "upload.png"}]

NextSaveAssets ==
    \/ \E mkdirOk \in BOOLEAN : SaveAssets(mkdirOk)
    \/ \E copyOk, unlinkOk \in BOOLEAN : ForEntry(copyOk, unlinkOk)

SpecSaveAssets == InitSaveAssets /\ [][NextSaveAssets]_vars

\* C30: the map has an entry for a node iff its asset has a filename and was
\* copied into assets/images; a failed copy does not throw and the entries
\* after it are still handled; a temp file is deleted only once a copy of it
\* has succeeded.
C30_FailuresAreIsolated ==
    output # <<>> =>
        LET save == output[1] IN
        /\ \A i \in DOMAIN input.assets :
              NodeId(i) \in DOMAIN save.assetMap <=>
                  /\ i \in DOMAIN save.copied
                  /\ input.assets[i].filename # ""
                  /\ save.copied[i] = "copied"
        /\ \A id \in DOMAIN save.assetMap :
              \E f \in save.images : save.assetMap[id] = "assets/images/" \o f
        /\ save.pc = "thrown" => save.copied = <<>>
        /\ save.pc = "for" => Len(save.copied) = save.index - 1
        /\ save.pc = "returned" => Len(save.copied) = Len(input.assets)
        /\ \A f \in input.uploads \ save.uploads :
              \E i \in DOMAIN save.copied :
                  input.assets[i].filename = f /\ save.copied[i] = "copied"
        /\ save.uploads \subseteq input.uploads

\* C30 witness: of three assets whose temp files exist, the first was copied
\* and its temp file deleted, the copy of the second failed, the third was
\* copied all the same, and the map has the first and the third.
C30_Witness ==
    /\ output # <<>>
    /\ output[1].pc = "returned"
    /\ output[1].copied = <<"copied", "failed", "copied">>
    /\ input.assets[2].filename \in input.uploads
    /\ input.assets[1].filename \notin output[1].uploads
    /\ input.assets[2].filename \in output[1].uploads
    /\ DOMAIN output[1].assetMap = {NodeId(1), NodeId(3)}
    /\ output[1].assetMap[NodeId(3)] = "assets/images/icon_close_18.png"

====
